---- MODULE Spec2Model ----
(***************************************************************************)
(* Order-lifecycle and risk-gating engine of the trading system:           *)
(*   error_handler.py  CircuitBreaker, retry_on_failure, SafeAPIWrapper    *)
(*   risk_manager.py   RiskManager                                         *)
(*   database.py       TradingDatabase (trades and daily_pnl tables)       *)
(* Each component has its own specification over the shared variable list; *)
(* a specification leaves the other components in their constructed state. *)
(***************************************************************************)
EXTENDS Integers, Sequences, FiniteSets, TLC

VARIABLES
    \* CircuitBreaker (error_handler.py)
    failure_threshold, timeout, failure_count, last_failure_time, state,
    now,            \* time.time(), in seconds
    cb_last,        \* what the last CircuitBreaker operation did
    \* retry_on_failure / SafeAPIWrapper (error_handler.py)
    frame,          \* the wrapper call in progress (locals of retry_on_failure.wrapper)
    streak,         \* failed broker invocations in a row of the call-site in use
    \* RiskManager (risk_manager.py)
    trading_enabled, halt_reason,
    \* TradingDatabase (database.py)
    trades, daily_pnl,
    \* what the last RiskManager / TradingDatabase operation was and returned
    last_op, decision, queries,
    \* config.LIVE_FLAG (config.py)
    LIVE_FLAG,
    \* OrderManager (order_manager.py): the place_*_order / confirm_order_placement
    \* call in progress
    om,
    \* TrailingStopLoss (exit_logic.py): the last exit evaluation
    tsl,
    \* OrderManager.verify_position (order_manager.py): the last call
    vp,
    \* TradingDatabase.lock and the update_sell_trade calls of two threads
    dbt,
    \* TradingSystem.process_entry_signals (main_trading_app.py): the symbol
    \* being scanned
    scan

breakerVars == <<failure_threshold, timeout, failure_count, last_failure_time,
                 state, cb_last>>
wrapperVars == <<frame, streak>>
riskVars    == <<trading_enabled, halt_reason, last_op, decision, queries>>
ledgerVars  == <<trades, daily_pnl>>
appVars     == <<LIVE_FLAG, om, tsl, vp, dbt, scan>>
vars == <<failure_threshold, timeout, failure_count, last_failure_time, state,
          now, cb_last, frame, streak, trading_enabled, halt_reason,
          trades, daily_pnl, last_op, decision, queries, LIVE_FLAG, om, tsl,
          vp, dbt, scan>>

\* Python's None for an optional time or number: the empty tuple; a value v is <<v>>.
NoneT == <<>>

(***************************************************************************)
(* Bounds of the model                                                     *)
(***************************************************************************)
MaxThreshold == 3      \* failure_threshold is drawn from 1..MaxThreshold
MaxTimeout   == 2      \* timeout is drawn from 0..MaxTimeout
MaxFailures  == 5      \* the breaker's failure_count is explored up to here
MaxTime      == 7      \* the breaker specification's clock is explored up to here
MaxStep      == 2      \* the clock advances by 1..MaxStep between calls

(***************************************************************************)
(* CircuitBreaker                                                          *)
(***************************************************************************)
CB_FAILURE_THRESHOLD == 5
CB_TIMEOUT == 60

CbIdle == [op |-> "init", pre_state |-> "CLOSED", elapsed |-> NoneT,
           invoked |-> FALSE, state_at_invoke |-> "CLOSED", result |-> "none"]

\* CircuitBreaker.__init__(failure_threshold, timeout)
CircuitBreakerInit(ft, to) ==
    /\ failure_threshold = ft
    /\ timeout = to
    /\ failure_count = 0
    /\ last_failure_time = NoneT
    /\ state = "CLOSED"
    /\ cb_last = CbIdle

\* if time.time() - self.last_failure_time > self.timeout
TimeoutElapsedGE(t, lft, to) == t - lft >= to
TimeoutElapsed(t, lft, to) == t - lft > to

\* if self.failure_count >= self.failure_threshold
ThresholdReachedGT(count, ft) == count > ft
ThresholdReached(count, ft) == count >= ft

\* after a success: if self.state == 'HALF_OPEN': self.failure_count = 0
CountKept(at_invoke, count) == count
CountAfterSuccess(at_invoke, count) == IF at_invoke = "HALF_OPEN" THEN 0 ELSE count

\* after a failure: self.last_failure_time = time.time()
FailureTimeKept(t, lft) == IF lft = NoneT THEN <<t>> ELSE lft
FailureTime(t, lft) == <<t>>

\* CircuitBreaker.call(func): outcome is what func does when it is invoked,
\* dur the time func takes.
CbCall(outcome, dur) ==
    LET pre == state
        typeError == pre = "OPEN" /\ last_failure_time = NoneT
        elapsed == IF pre = "OPEN" /\ ~typeError
                   THEN <<now - last_failure_time[1]>> ELSE NoneT
        mid == IF pre = "OPEN" /\ ~typeError
                  /\ TimeoutElapsed(now, last_failure_time[1], timeout)
               THEN "HALF_OPEN" ELSE pre
        rejected == pre = "OPEN" /\ ~typeError /\ mid = "OPEN"
    IN  /\ now + dur <= MaxTime
        /\ UNCHANGED <<failure_threshold, timeout>>
        /\ IF typeError
           THEN \* None in the subtraction: TypeError before anything is changed
                /\ UNCHANGED <<failure_count, last_failure_time, state, now>>
                /\ cb_last' = [op |-> "call", pre_state |-> pre, elapsed |-> NoneT,
                               invoked |-> FALSE, state_at_invoke |-> pre,
                               result |-> "TypeError"]
           ELSE IF rejected
           THEN /\ UNCHANGED <<failure_count, last_failure_time, state, now>>
                /\ cb_last' = [op |-> "call", pre_state |-> pre, elapsed |-> elapsed,
                               invoked |-> FALSE, state_at_invoke |-> pre,
                               result |-> "rejected"]
           ELSE /\ now' = now + dur
                /\ cb_last' = [op |-> "call", pre_state |-> pre, elapsed |-> elapsed,
                               invoked |-> TRUE, state_at_invoke |-> mid,
                               result |-> outcome]
                /\ IF outcome = "ok"
                   THEN /\ state' = IF mid = "HALF_OPEN" THEN "CLOSED" ELSE mid
                        /\ failure_count' = CountAfterSuccess(mid, failure_count)
                        /\ UNCHANGED last_failure_time
                   ELSE /\ failure_count < MaxFailures
                        /\ failure_count' = failure_count + 1
                        /\ last_failure_time' = FailureTime(now + dur, last_failure_time)
                        /\ state' = IF ThresholdReached(failure_count + 1, failure_threshold)
                                    THEN "OPEN" ELSE mid

\* reset(): self.state = 'CLOSED'
ResetStateKept(s) == s
ResetState(s) == "CLOSED"

\* CircuitBreaker.reset()
CbReset ==
    /\ state' = ResetState(state)
    /\ failure_count' = 0
    /\ last_failure_time' = NoneT
    /\ cb_last' = [CbIdle EXCEPT !.op = "reset", !.pre_state = state]
    /\ UNCHANGED <<failure_threshold, timeout, now>>

\* the clock between two operations
Tick(d) ==
    /\ now + d <= MaxTime
    /\ now' = now + d
    /\ UNCHANGED <<breakerVars, wrapperVars, riskVars, ledgerVars, appVars>>

(***************************************************************************)
(* retry_on_failure and SafeAPIWrapper                                     *)
(***************************************************************************)
MaxRetries == 3        \* a bare decorated function's max_retries is drawn from 0..MaxRetries
MaxStart   == 6        \* wrapper calls start while now <= MaxStart
MaxStreak  == 6        \* the failure streak of a call-site saturates here

WrapperSites == {"place_order", "get_order_details", "get_positions", "get_candle_data"}

\* the decorator's arguments at each decorated method; "func" is a function
\* decorated with @retry_on_failure(max_retries=n) and the defaults otherwise
RetryConfig(site, n) ==
    CASE site = "get_candle_data"   -> [max_retries |-> 3, delay |-> 2, backoff |-> 2]
      [] site = "place_order"       -> [max_retries |-> 3, delay |-> 2, backoff |-> 2]
      [] site = "get_order_details" -> [max_retries |-> 3, delay |-> 1, backoff |-> 2]
      [] site = "get_positions"     -> [max_retries |-> 2, delay |-> 1, backoff |-> 2]
      [] OTHER                      -> [max_retries |-> n, delay |-> 1, backoff |-> 2]

\* required_params of SafeAPIWrapper.place_order
RequiredParams == {"tradingsymbol", "symboltoken", "transactiontype", "exchange",
                   "ordertype", "producttype", "quantity"}
\* the params dict OrderManager.place_buy_order builds (its keys)
OrderParams == RequiredParams \cup {"variety", "duration", "price"}
\* the params a caller may pass: all of them, or one required key left out
ParamChoices == {OrderParams} \cup {OrderParams \ {p} : p \in RequiredParams}

\* missing = [p for p in required_params if p not in params]
MissingIgnoresQuantity(params) == {p \in RequiredParams \ {"quantity"} : p \notin params}
Missing(params) == {p \in RequiredParams : p \notin params}

\* what the broker's method can do when it is invoked
BrokerOutcomes(site) ==
    CASE site = "place_order"     -> {"raise", "empty", "status_false", "no_id", "ok"}
      [] site = "get_candle_data" -> {"raise", "empty", "no_data", "empty_data", "ok"}
      [] site = "func"            -> {"raise", "ok"}
      [] OTHER                    -> {"raise", "empty", "no_data", "ok"}

\* place_order's body after placeOrder has answered: an exception, an empty
\* response and status False raise OrderException, anything else is returned
PlaceOrderRaisesOnAny(b) == b \in {"raise", "empty", "status_false", "ok"}
PlaceOrderRaises(b) == b \in {"raise", "empty", "status_false"}

\* one execution of the decorated method's body: whether the broker's method is
\* invoked, and the exception that leaves the body ("none": the response is returned)
Body(site, params, b) ==
    CASE site = "place_order" ->
            IF Missing(params) /= {}
            THEN [invoked |-> FALSE, exception |-> "ValidationException"]
            ELSE [invoked |-> TRUE,
                  exception |-> IF PlaceOrderRaises(b)
                                THEN "OrderException" ELSE "none"]
      [] site = "func" ->
            [invoked |-> TRUE, exception |-> IF b = "ok" THEN "none" ELSE "Exception"]
      [] OTHER ->
            [invoked |-> TRUE, exception |-> IF b = "ok" THEN "none" ELSE "APIException"]

IdleFrame == [site |-> "none", params |-> {}, max_retries |-> 0, retry_delay |-> 0,
              backoff |-> 0, attempt |-> 0, calls |-> 0, broker_calls |-> 0,
              sleeps |-> 0, failures |-> 0, last_exception |-> "none",
              status |-> "idle", raised |-> "none", result |-> "none"]
IdleStreak == [site |-> "none", count |-> 0, last_fail |-> NoneT]

\* for attempt in range(max_retries + 1)
RetryAttemptsShort(max_retries) == max_retries
RetryAttempts(max_retries) == max_retries + 1

\* if attempt < max_retries: sleep and go round again, else raise
MayRetry(attempt, max_retries) == attempt < max_retries

\* a caller enters the decorated function: wrapper's locals are set up
StartFrame(site, params, n) ==
    LET cfg == RetryConfig(site, n) IN
    /\ frame.status /= "running"
    /\ frame' = [IdleFrame EXCEPT !.site = site, !.params = params,
                                  !.max_retries = cfg.max_retries,
                                  !.retry_delay = cfg.delay,
                                  !.backoff = cfg.backoff,
                                  !.status = IF RetryAttempts(cfg.max_retries) > 0
                                             THEN "running" ELSE "raised",
                                  !.raised = IF RetryAttempts(cfg.max_retries) > 0
                                             THEN "none" ELSE "Exception"]
    /\ streak' = IF streak.site = site THEN streak ELSE [IdleStreak EXCEPT !.site = site]

\* a call of a decorated function on its own
StartCall(site, params, n) ==
    /\ now <= MaxStart
    /\ StartFrame(site, params, n)
    /\ UNCHANGED <<now, breakerVars, riskVars, ledgerVars, appVars>>

\* one iteration of wrapper's loop: the body runs once; on an exception the
\* wrapper sleeps and goes round again, or raises the last exception
AttemptFrame(b) ==
    LET r == Body(frame.site, frame.params, b)
        failed == r.exception /= "none"
        retry == failed /\ MayRetry(frame.attempt, frame.max_retries)
        more == frame.attempt + 1 < RetryAttempts(frame.max_retries)
    IN
    /\ frame.status = "running"
    /\ b \in BrokerOutcomes(frame.site)
    /\ frame' = [frame EXCEPT
            !.calls = @ + 1,
            !.broker_calls = IF r.invoked THEN @ + 1 ELSE @,
            !.failures = IF failed THEN @ + 1 ELSE @,
            !.last_exception = IF failed THEN r.exception ELSE @,
            !.sleeps = IF retry THEN @ + 1 ELSE @,
            !.retry_delay = IF retry THEN @ * frame.backoff ELSE @,
            !.attempt = IF retry THEN @ + 1 ELSE @,
            !.status = IF ~failed THEN "returned"
                       ELSE IF retry /\ more THEN "running" ELSE "raised",
            !.raised = IF failed /\ ~(retry /\ more) THEN r.exception ELSE "none",
            !.result = IF ~failed THEN b ELSE "none"]
    /\ now' = IF retry THEN now + frame.retry_delay ELSE now
    /\ streak' = IF ~r.invoked THEN streak
                 ELSE IF failed
                 THEN [streak EXCEPT !.count = IF @ < MaxStreak THEN @ + 1 ELSE @,
                                     !.last_fail = <<now>>]
                 ELSE [streak EXCEPT !.count = 0]

Attempt(b) ==
    /\ AttemptFrame(b)
    /\ UNCHANGED <<breakerVars, riskVars, ledgerVars, appVars>>

(***************************************************************************)
(* TradingDatabase: the trades table and today's row of daily_pnl          *)
(***************************************************************************)
MaxTrades == 4         \* rows of the trades table

Symbols == {"NIFTY", "TCS"}

\* get_today_pnl(): today's row, or the all-zero default when there is none
get_today_pnl ==
    IF daily_pnl = NoneT
    THEN [total_trades |-> 0, winning_trades |-> 0, losing_trades |-> 0,
          total_profit_loss |-> 0, max_profit |-> 0, max_loss |-> 0]
    ELSE daily_pnl[1]

RECURSIVE Reverse(_)
Reverse(s) == IF s = <<>> THEN <<>> ELSE Append(Reverse(Tail(s)), Head(s))

\* WHERE shyam_status = 'buy_complete' [AND tradingsymbol = ?]
IsOpenRow(t) == t.shyam_status = "buy_complete"
IsOpenRowOf(t, tradingsymbol) == IsOpenRow(t) /\ t.tradingsymbol = tradingsymbol

\* get_open_trades(tradingsymbol=None): ORDER BY created_at DESC, newest row first
get_open_trades(tradingsymbol) ==
    IF tradingsymbol = NoneT
    THEN Reverse(SelectSeq(trades, IsOpenRow))
    ELSE Reverse(SelectSeq(trades, LAMBDA t : IsOpenRowOf(t, tradingsymbol[1])))

\* insert_trade(trade_data); order_id is the clock's "%d%H%M%S": same_second says
\* the clock reads as it did at the newest row's insert (UNIQUE then fails)
insert_trade(trade_data, same_second) ==
    /\ Len(trades) < MaxTrades
    /\ IF same_second /\ trades /= <<>>
       THEN /\ UNCHANGED trades
            /\ last_op' = [name |-> "insert_trade", args |-> <<"IntegrityError">>]
       ELSE /\ trades' = Append(trades,
                [order_id |-> Len(trades) + 1,
                 tradingsymbol |-> trade_data.tradingsymbol,
                 order_quantity |-> trade_data.order_quantity,
                 order_price |-> trade_data.order_price,
                 shyam_status |-> trade_data.shyam_status,
                 buy_quantity |-> NoneT, buy_price |-> NoneT,
                 sell_quantity |-> NoneT, sell_price |-> NoneT,
                 profit_loss |-> NoneT,
                 max_profit_seen |-> 0])      \* REAL DEFAULT 0
            /\ last_op' = [name |-> "insert_trade", args |-> <<>>]
    /\ UNCHANGED daily_pnl

\* update_buy_trade(order_id, buy_data)
update_buy_trade(order_id, buy_data) ==
    /\ trades' = [i \in DOMAIN trades |->
                    IF trades[i].order_id = order_id
                    THEN [trades[i] EXCEPT !.buy_quantity = <<buy_data.buy_quantity>>,
                                           !.buy_price = <<buy_data.buy_price>>,
                                           !.shyam_status = buy_data.shyam_status]
                    ELSE trades[i]]
    /\ last_op' = [name |-> "update_buy_trade", args |-> <<>>]
    /\ UNCHANGED daily_pnl

\* update_max_profit_seen(order_id, max_profit_pct)
update_max_profit_seen(order_id, max_profit_pct) ==
    /\ trades' = [i \in DOMAIN trades |->
                    IF trades[i].order_id = order_id
                    THEN [trades[i] EXCEPT !.max_profit_seen = max_profit_pct]
                    ELSE trades[i]]
    /\ UNCHANGED daily_pnl

\* 1 if profit_loss <= 0 else 0
IsLossBelowZero(profit_loss) == profit_loss < 0
IsLoss(profit_loss) == profit_loss <= 0

\* _update_daily_pnl(cursor, trade_date, profit_loss), trade_date today
update_daily_pnl(profit_loss) ==
    LET win == IF profit_loss > 0 THEN 1 ELSE 0
        loss == IF IsLoss(profit_loss) THEN 1 ELSE 0
        gain == IF profit_loss > 0 THEN profit_loss ELSE 0
        drop == IF profit_loss < 0 THEN profit_loss ELSE 0
    IN  IF daily_pnl /= NoneT
        THEN LET row == daily_pnl[1] IN
             <<[total_trades |-> row.total_trades + 1,
                winning_trades |-> row.winning_trades + win,
                losing_trades |-> row.losing_trades + loss,
                total_profit_loss |-> row.total_profit_loss + profit_loss,
                max_profit |-> IF row.max_profit >= gain THEN row.max_profit ELSE gain,
                max_loss |-> IF row.max_loss <= drop THEN row.max_loss ELSE drop]>>
        ELSE <<[total_trades |-> 1, winning_trades |-> win, losing_trades |-> loss,
                total_profit_loss |-> profit_loss, max_profit |-> gain,
                max_loss |-> drop]>>

\* update_sell_trade(order_id, sell_data)
update_sell_trade(order_id, sell_data) ==
    LET found == {i \in DOMAIN trades : trades[i].order_id = order_id} IN
    /\ IF found = {}
       THEN \* no such row: nothing is written
            /\ UNCHANGED <<trades, daily_pnl>>
            /\ last_op' = [name |-> "update_sell_trade", args |-> <<"no row">>]
       ELSE LET i == CHOOSE j \in found : TRUE
                row == trades[i]
            IN  IF row.buy_price = NoneT \/ row.buy_quantity = NoneT
                THEN \* buy_quantity * buy_price with None: TypeError, nothing committed
                     /\ UNCHANGED <<trades, daily_pnl>>
                     /\ last_op' = [name |-> "update_sell_trade", args |-> <<"TypeError">>]
                ELSE LET sell_total == sell_data.sell_quantity * sell_data.sell_price
                         buy_total == row.buy_quantity[1] * row.buy_price[1]
                         profit_loss == sell_total - buy_total
                     IN  /\ trades' = [trades EXCEPT ![i] =
                                [row EXCEPT !.sell_quantity = <<sell_data.sell_quantity>>,
                                            !.sell_price = <<sell_data.sell_price>>,
                                            !.shyam_status = sell_data.shyam_status,
                                            !.profit_loss = <<profit_loss>>]]
                         /\ daily_pnl' = update_daily_pnl(profit_loss)
                         /\ last_op' = [name |-> "update_sell_trade", args |-> <<>>]

(***************************************************************************)
(* RiskManager                                                             *)
(***************************************************************************)
POSITION_SIZE == 50000
MAX_DAILY_LOSS == -10000
MAX_POSITION_COUNT == 3

NoDecision == [allowed |-> FALSE, reason |-> <<>>, checks |-> <<>>]

\* RiskManager.__init__
RiskManagerInit ==
    /\ trading_enabled = TRUE
    /\ halt_reason = NoneT
    /\ last_op = [name |-> "init", args |-> <<>>]
    /\ decision = NoDecision
    /\ queries = <<>>

\* if total_pnl <= config.MAX_DAILY_LOSS
DailyLossExceededStrict(total_pnl) == total_pnl < MAX_DAILY_LOSS
DailyLossExceeded(total_pnl) == total_pnl <= MAX_DAILY_LOSS

\* check_daily_loss_limit()
check_daily_loss_limit ==
    LET pnl == get_today_pnl
        total_pnl == pnl.total_profit_loss
    IN  IF DailyLossExceeded(total_pnl)
        THEN [allowed |-> FALSE,
              reason |-> <<"Daily loss limit exceeded", total_pnl>>, pnl |-> pnl]
        ELSE [allowed |-> TRUE, reason |-> <<"Within daily loss limit">>, pnl |-> pnl]

\* check_max_positions()
check_max_positions ==
    LET current_count == Len(get_open_trades(NoneT)) IN
    IF current_count >= MAX_POSITION_COUNT
    THEN [allowed |-> FALSE, reason |-> <<"Maximum positions reached", current_count>>,
          current_count |-> current_count]
    ELSE [allowed |-> TRUE, reason |-> <<"Position limit OK", current_count>>,
          current_count |-> current_count]

\* check_existing_position(tradingsymbol)
check_existing_position(tradingsymbol) ==
    LET open_trades == get_open_trades(<<tradingsymbol>>) IN
    IF open_trades /= <<>>
    THEN [allowed |-> FALSE,
          reason |-> <<"Position already exists for", tradingsymbol>>,
          existing_position |-> <<open_trades[1].order_id>>]
    ELSE [allowed |-> TRUE, reason |-> <<"No existing position">>,
          existing_position |-> NoneT]

\* position_value < POSITION_SIZE * 0.5 or position_value > POSITION_SIZE * 1.5
SizeOutOfRangeInclusive(position_value) ==
    2 * position_value <= POSITION_SIZE \/ 2 * position_value >= 3 * POSITION_SIZE
SizeOutOfRange(position_value) ==
    2 * position_value < POSITION_SIZE \/ 2 * position_value > 3 * POSITION_SIZE

\* if not self.trading_enabled
TradingHaltedIgnored == FALSE
TradingHalted == ~trading_enabled

\* the order in which can_enter_trade runs its checks after the halt flag
RiskCheckOrderSwapped == <<"daily_loss", "existing_position", "max_positions", "position_value">>
RiskCheckOrder == <<"daily_loss", "max_positions", "existing_position", "position_value">>

\* one check of can_enter_trade: whether it passes, the reason it returns when it
\* fails, its entry in the checks dict and the ledger query it makes
RiskCheck(name, tradingsymbol, entry_price, quantity) ==
    CASE name = "daily_loss" ->
            LET c == check_daily_loss_limit IN
            [name |-> name, pass |-> c.allowed, reason |-> c.reason,
             entry |-> [name |-> name, allowed |-> c.allowed,
                        value |-> c.pnl.total_profit_loss],
             query |-> <<"get_today_pnl">>]
      [] name = "max_positions" ->
            LET c == check_max_positions IN
            [name |-> name, pass |-> c.allowed, reason |-> c.reason,
             entry |-> [name |-> name, allowed |-> c.allowed, value |-> c.current_count],
             query |-> <<"get_open_trades">>]
      [] name = "existing_position" ->
            LET c == check_existing_position(tradingsymbol) IN
            [name |-> name, pass |-> c.allowed, reason |-> c.reason,
             entry |-> [name |-> name, allowed |-> c.allowed,
                        value |-> Len(c.existing_position)],
             query |-> <<"get_open_trades(tradingsymbol)">>]
      [] name = "position_value" ->
            LET position_value == entry_price * quantity IN
            [name |-> name, pass |-> ~SizeOutOfRange(position_value),
             reason |-> <<"Position size out of range", position_value>>,
             entry |-> [name |-> name, value |-> position_value],
             query |-> <<>>]

\* the checks can_enter_trade runs from the i-th on: it returns at the first that fails
RECURSIVE RunChecks(_, _, _, _)
RunChecks(i, tradingsymbol, entry_price, quantity) ==
    IF i > Len(RiskCheckOrder) THEN <<>>
    ELSE LET c == RiskCheck(RiskCheckOrder[i], tradingsymbol, entry_price, quantity) IN
         IF c.pass
         THEN <<c>> \o RunChecks(i + 1, tradingsymbol, entry_price, quantity)
         ELSE <<c>>

RECURSIVE Concat(_)
Concat(ss) == IF ss = <<>> THEN <<>> ELSE Head(ss) \o Concat(Tail(ss))

\* can_enter_trade(tradingsymbol, entry_price, quantity)
can_enter_trade(tradingsymbol, entry_price, quantity) ==
    /\ last_op' = [name |-> "can_enter_trade",
                   args |-> <<tradingsymbol, entry_price, quantity>>]
    /\ IF TradingHalted
       THEN /\ decision' = [allowed |-> FALSE,
                            reason |-> <<"Trading halted", halt_reason>>,
                            checks |-> <<>>]
            /\ queries' = <<>>
            /\ UNCHANGED <<trading_enabled, halt_reason>>
       ELSE LET run == RunChecks(1, tradingsymbol, entry_price, quantity)
                last == run[Len(run)]
            IN  /\ decision' = [allowed |-> last.pass,
                                reason |-> IF last.pass THEN <<"All risk checks passed">>
                                           ELSE last.reason,
                                checks |-> [k \in DOMAIN run |-> run[k].entry]]
                /\ queries' = Concat([k \in DOMAIN run |-> run[k].query])
                /\ IF last.name = "daily_loss" /\ ~last.pass
                   THEN \* self.halt_trading(daily_loss_check['reason'])
                        /\ trading_enabled' = FALSE
                        /\ halt_reason' = last.reason
                   ELSE UNCHANGED <<trading_enabled, halt_reason>>
    /\ UNCHANGED <<ledgerVars, now, breakerVars, wrapperVars, LIVE_FLAG, om, tsl, vp,
                   dbt>>

\* halt_trading(reason)
halt_trading(reason) ==
    /\ trading_enabled' = FALSE
    /\ halt_reason' = reason
    /\ last_op' = [name |-> "halt_trading", args |-> <<reason>>]
    /\ decision' = NoDecision
    /\ queries' = <<>>
    /\ UNCHANGED <<ledgerVars, now, breakerVars, wrapperVars, appVars>>

\* resume_trading()
resume_trading ==
    /\ trading_enabled' = TRUE
    /\ halt_reason' = NoneT
    /\ last_op' = [name |-> "resume_trading", args |-> <<>>]
    /\ decision' = NoDecision
    /\ queries' = <<>>
    /\ UNCHANGED <<ledgerVars, now, breakerVars, wrapperVars, appVars>>

(***************************************************************************)
(* OrderManager                                                            *)
(***************************************************************************)
MaxWait       == 2     \* a direct confirm_order_placement gets max_wait from 0..MaxWait
MaxOrderStart == 1     \* OrderManager calls start while now <= MaxOrderStart

CONFIRM_MAX_WAIT == 5
CHECK_INTERVAL == 1

NoConfirmation == [confirmed |-> FALSE, status |-> "none", fill_price |-> NoneT,
                   fill_quantity |-> NoneT, fill_time |-> NoneT]
NoResult == [success |-> FALSE, order_id |-> NoneT, message |-> "none"]

\* the OrderManager call in progress: where it is, and what it has done so far
IdleOrder == [op |-> "none", pc |-> "idle", order_id |-> NoneT,
              max_wait |-> 0, start_time |-> 0,
              place_calls |-> 0,      \* smartapi.placeOrder invocations
              id_seen |-> FALSE,      \* placeOrder has answered with an order id
              place_after_id |-> 0,   \* placeOrder invocations after that answer
              polls |-> 0,            \* status polls started by the loop
              late_polls |-> 0,       \* of them, started with max_wait elapsed
              errors |-> 0,           \* polls that ended in the except branch
              lookups |-> 0,          \* get_trade_book_details calls
              after_terminal |-> 0,   \* polls started after 'rejected'/'cancelled'
              last_status |-> "none", \* status of the last poll that returned one
              quiet |-> TRUE,         \* no poll has reported a terminal status
              filledshares |-> NoneT, \* order_data['filledshares'] of the last poll
              book |-> "none",        \* what the trade book lookup found
              result |-> NoResult, confirmation |-> NoConfirmation]

\* what order_data['status'] may hold; "None" stands for a response whose
\* 'data' is None (order_data.get raises AttributeError)
RawStatuses == {"open", "pending", "", "complete", "COMPLETE", "rejected",
                "Cancelled", "None"}

\* order_data.get('status', '').lower()
Lower(raw) ==
    CASE raw = "COMPLETE"  -> "complete"
      [] raw = "Cancelled" -> "cancelled"
      [] OTHER             -> raw

\* order_data.get('filledshares', 0) as the broker sends it, and int() of it
FilledShares == {NoneT, <<75>>}
IntOfAbsent(x) == 0
IntOf(x) == IF x = NoneT THEN 0 ELSE x[1]

\* the trade book's record of the order: (fillprice, filltime)
FillRecord == <<101, "09:31:05">>

\* what get_trade_book_details meets after its own get_order_details returned
BookOutcomes == {"no_orderid", "raise", "empty", "no_match", "match"}

\* while time.time() - start_time < max_wait
WithinWaitInclusive(t, start_time, max_wait) == t - start_time <= max_wait
WithinWait(t, start_time, max_wait) == t - start_time < max_wait

\* elif status in ['rejected', 'cancelled']
TerminalFailureOnlyRejected(status) == status = "rejected"
TerminalFailure(status) == status \in {"rejected", "cancelled"}

\* validate_order_response(response): (is_valid, message, order_id)
AcceptResponse(response) ==
    [is_valid |-> TRUE, message |-> "Success",
     order_id |-> IF response = "ok" THEN <<"uniqueorderid">> ELSE NoneT]
validate_order_response(response) ==
    CASE response = "empty" ->
            [is_valid |-> FALSE, message |-> "Empty response", order_id |-> NoneT]
      [] response = "status_false" ->
            [is_valid |-> FALSE, message |-> "Unknown error", order_id |-> NoneT]
      [] response = "no_id" ->
            [is_valid |-> FALSE, message |-> "Order ID not found in response",
             order_id |-> NoneT]
      [] OTHER ->
            [is_valid |-> TRUE, message |-> "Success", order_id |-> <<"uniqueorderid">>]

\* the params dict place_sell_order builds: "price" only for a LIMIT order
SellParams(order_type) ==
    IF order_type = "LIMIT" THEN OrderParams ELSE OrderParams \ {"price"}

\* what an OrderManager step leaves alone
OrderFrame == UNCHANGED <<breakerVars, riskVars, ledgerVars, LIVE_FLAG, tsl, vp, dbt,
                          scan>>

OrderCallable == om.pc \in {"idle", "done"} /\ now <= MaxOrderStart

\* place_buy_order(...): params are built and self.api.place_order(params) is entered
place_buy_order ==
    /\ OrderCallable
    /\ StartFrame("place_order", OrderParams, 0)
    /\ om' = [IdleOrder EXCEPT !.op = "place_buy_order", !.pc = "placing",
                               !.max_wait = CONFIRM_MAX_WAIT]
    /\ UNCHANGED now /\ OrderFrame

\* place_sell_order(..., order_type, exit_price)
place_sell_order(order_type, exit_price) ==
    /\ OrderCallable
    /\ IF order_type = "LIMIT" /\ exit_price = NoneT
       THEN /\ om' = [IdleOrder EXCEPT !.op = "place_sell_order", !.pc = "done",
                        !.result = [NoResult EXCEPT
                            !.message = "Exit price required for LIMIT orders"]]
            /\ UNCHANGED <<frame, streak>>
       ELSE /\ StartFrame("place_order", SellParams(order_type), 0)
            /\ om' = [IdleOrder EXCEPT !.op = "place_sell_order", !.pc = "placing",
                                       !.max_wait = CONFIRM_MAX_WAIT]
    /\ UNCHANGED now /\ OrderFrame

\* one attempt of self.api.place_order inside place_buy_order / place_sell_order
PlaceAttempt(b) ==
    LET invoked == Body(frame.site, frame.params, b).invoked IN
    /\ om.pc = "placing"
    /\ AttemptFrame(b)
    /\ om' = [om EXCEPT !.place_calls = IF invoked THEN @ + 1 ELSE @,
                        !.place_after_id = IF invoked /\ om.id_seen THEN @ + 1 ELSE @,
                        !.id_seen = @ \/ (invoked /\ b = "ok")]
    /\ OrderFrame

\* self.api.place_order has returned or raised: validate_order_response, then
\* confirm_order_placement(order_id, max_wait=5) is entered, or the failure is returned
PlaceReturn ==
    /\ om.pc = "placing"
    /\ frame.status \in {"returned", "raised"}
    /\ IF frame.status = "raised"
       THEN om' = [om EXCEPT !.pc = "done",
                             !.result = [NoResult EXCEPT !.message = frame.raised]]
       ELSE LET v == validate_order_response(frame.result) IN
            IF ~v.is_valid
            THEN om' = [om EXCEPT !.pc = "done",
                                  !.result = [NoResult EXCEPT !.message = v.message]]
            ELSE om' = [om EXCEPT !.pc = "confirming", !.order_id = v.order_id,
                                  !.start_time = now]
    /\ UNCHANGED <<frame, streak, now>> /\ OrderFrame

\* confirm_order_placement(order_id, max_wait) called on its own
confirm_order_placement(max_wait) ==
    /\ OrderCallable
    /\ frame.status /= "running"
    /\ om' = [IdleOrder EXCEPT !.op = "confirm_order_placement", !.pc = "confirming",
                               !.order_id = <<"uniqueorderid">>,
                               !.max_wait = max_wait, !.start_time = now]
    /\ UNCHANGED <<frame, streak, now>> /\ OrderFrame

\* confirm_order_placement returns confirmation; inside place_*_order the
\* enclosing call returns success with it
Confirmed(confirmation) ==
    [om EXCEPT !.pc = "done", !.confirmation = confirmation,
               !.result = IF om.op = "confirm_order_placement" THEN NoResult
                          ELSE [success |-> TRUE, order_id |-> om.order_id,
                                message |-> "Order placed and confirmed"]]

\* the loop's test: another poll (self.api.get_order_details is entered), or the
\* timeout return
ConfirmLoop ==
    /\ om.pc = "confirming"
    /\ IF WithinWait(now, om.start_time, om.max_wait)
       THEN /\ StartFrame("get_order_details", {}, 0)
            /\ om' = [om EXCEPT
                    !.pc = "polling",
                    !.polls = @ + 1,
                    !.late_polls = IF now - om.start_time >= om.max_wait
                                   THEN @ + 1 ELSE @,
                    !.after_terminal = IF om.last_status \in {"rejected", "cancelled"}
                                       THEN @ + 1 ELSE @]
       ELSE /\ om' = Confirmed([NoConfirmation EXCEPT !.status = "timeout"])
            /\ UNCHANGED <<frame, streak>>
    /\ UNCHANGED now /\ OrderFrame

\* one attempt of self.api.get_order_details, for a poll or for the trade book
LookupAttempt(b) ==
    /\ om.pc \in {"polling", "lookup"}
    /\ AttemptFrame(b)
    /\ UNCHANGED om /\ OrderFrame

\* the poll's get_order_details has returned or raised: the loop's body after it
PollReturn(raw, filledshares) ==
    LET status == Lower(raw) IN
    /\ om.pc = "polling"
    /\ frame.status \in {"returned", "raised"}
    /\ IF frame.status = "raised" \/ raw = "None"
       THEN \* except Exception: time.sleep(check_interval)
            /\ om' = [om EXCEPT !.pc = "confirming", !.errors = @ + 1]
            /\ now' = now + CHECK_INTERVAL
            /\ UNCHANGED <<frame, streak>>
       ELSE IF status = "complete"
       THEN \* get_trade_book_details(order_id) enters self.api.get_order_details
            /\ StartFrame("get_order_details", {}, 0)
            /\ om' = [om EXCEPT !.pc = "lookup", !.last_status = status,
                                !.quiet = FALSE, !.filledshares = filledshares,
                                !.lookups = @ + 1]
            /\ UNCHANGED now
       ELSE IF TerminalFailure(status)
       THEN /\ om' = [Confirmed([NoConfirmation EXCEPT !.status = status])
                        EXCEPT !.last_status = status, !.quiet = FALSE]
            /\ UNCHANGED <<frame, streak, now>>
       ELSE \* still pending: time.sleep(check_interval)
            /\ om' = [om EXCEPT !.pc = "confirming", !.last_status = status,
                                !.quiet = @ /\ status \notin {"rejected", "cancelled"}]
            /\ now' = now + CHECK_INTERVAL
            /\ UNCHANGED <<frame, streak>>
    /\ OrderFrame

\* get_trade_book_details after its get_order_details: (fill_price, fill_time) of
\* the matching trade, or (None, None); confirm_order_placement returns with them
LookupReturn(book) ==
    LET found == frame.status = "returned" /\ book = "match"
        outcome == IF frame.status = "raised" THEN "raise" ELSE book
    IN
    /\ om.pc = "lookup"
    /\ frame.status \in {"returned", "raised"}
    /\ om' = [Confirmed([confirmed |-> TRUE, status |-> "complete",
                         fill_price |-> IF found THEN <<FillRecord[1]>> ELSE NoneT,
                         fill_quantity |-> <<IntOf(om.filledshares)>>,
                         fill_time |-> IF found THEN <<FillRecord[2]>> ELSE NoneT])
                EXCEPT !.book = outcome]
    /\ UNCHANGED <<frame, streak, now>> /\ OrderFrame

(***************************************************************************)
(* TrailingStopLoss and check_exit_conditions_v2 (exit_logic.py)           *)
(* Percentages are in hundredths of a percent (1.5 % is 150); a stop price *)
(* is in 1/10000 of the price unit, so every value stays an exact integer. *)
(***************************************************************************)
TRAILING_STOP_LOSS_ENABLED == TRUE
TRAILING_STOP_LOSS_TRIGGER_PERCENT == 150
TRAILING_STOP_LOSS_TRAIL_PERCENT == 100
TARGET_PROFIT_PERCENT == 100
STOP_LOSS == -400

Max(a, b) == IF a >= b THEN a ELSE b

\* ((current_price - entry_price) / entry_price) * 100
ProfitPct(current_price, entry_price) ==
    ((current_price - entry_price) * 10000) \div entry_price

\* entry_price * (1 + trailing_threshold / 100)
StopLossPrice(entry_price, trailing_threshold) ==
    entry_price * (10000 + trailing_threshold)

\* tsl_active = max_profit >= self.trigger_percent
StopActive(max_profit, trigger_percent) == max_profit >= trigger_percent

\* should_exit = current_profit_pct < trailing_threshold
BelowThresholdInclusive(current_profit_pct, trailing_threshold) ==
    current_profit_pct <= trailing_threshold
BelowThreshold(current_profit_pct, trailing_threshold) ==
    current_profit_pct < trailing_threshold

\* trailing_threshold = max_profit - self.trail_percent
TrailingThresholdFromCurrent(max_profit, current_profit_pct, trail_percent) ==
    current_profit_pct - trail_percent
TrailingThreshold(max_profit, current_profit_pct, trail_percent) ==
    max_profit - trail_percent

NoStopResult == [tsl_active |-> FALSE, stop_loss_price |-> NoneT,
                 trailing_threshold |-> NoneT, should_exit |-> FALSE,
                 max_profit |-> NoneT]

\* TrailingStopLoss.calculate_stop_loss(entry_price, current_price, max_profit_seen)
\* of an object with the given enabled, trigger_percent and trail_percent
calculate_stop_loss(enabled, trigger_percent, trail_percent, entry_price, current_price, max_profit_seen) ==
    IF ~enabled THEN NoStopResult
    ELSE LET current_profit_pct == ProfitPct(current_price, entry_price)
             max_profit == Max(max_profit_seen, current_profit_pct)
             tsl_active == StopActive(max_profit, trigger_percent)
             trailing_threshold ==
                 TrailingThreshold(max_profit, current_profit_pct, trail_percent)
         IN  IF ~tsl_active
             THEN [NoStopResult EXCEPT !.max_profit = <<max_profit>>]
             ELSE [tsl_active |-> TRUE,
                   stop_loss_price |-> <<StopLossPrice(entry_price, trailing_threshold)>>,
                   trailing_threshold |-> <<trailing_threshold>>,
                   should_exit |-> BelowThreshold(current_profit_pct, trailing_threshold),
                   max_profit |-> <<max_profit>>]

\* tsl_result.get('max_profit', max_profit_seen)
MaxProfitKept(tsl_result, max_profit_seen) == max_profit_seen
MaxProfitUpdated(tsl_result, max_profit_seen) ==
    IF tsl_result.max_profit = NoneT THEN max_profit_seen ELSE tsl_result.max_profit[1]

\* check_exit_conditions_v2(df_data, entry_price, max_profit_seen, tradingsymbol):
\* indicators_ok says the last candle has RSI, SMA14_RSI, close, EMA3 and EMA5,
\* rsi_exit is rsi < rsi_sma, c_close and ema3 are the candle's close and EMA3
check_exit_conditions_v2(indicators_ok, rsi_exit, c_close, ema3, entry_price, max_profit_seen) ==
    IF ~indicators_ok
    THEN [exit_signal |-> FALSE, exit_price |-> NoneT,
          max_profit_updated |-> max_profit_seen, tsl_result |-> NoStopResult]
    ELSE LET percentage_profit == ProfitPct(c_close, entry_price)
             tsl_result == calculate_stop_loss(TRAILING_STOP_LOSS_ENABLED,
                               TRAILING_STOP_LOSS_TRIGGER_PERCENT,
                               TRAILING_STOP_LOSS_TRAIL_PERCENT,
                               entry_price, c_close, max_profit_seen)
             profit_target == percentage_profit >= TARGET_PROFIT_PERCENT
             stop_loss_hit == percentage_profit <= STOP_LOSS
             exit_signal == rsi_exit \/ profit_target \/ stop_loss_hit
                            \/ tsl_result.should_exit
         IN  [exit_signal |-> exit_signal,
              exit_price |-> IF ~exit_signal THEN NoneT
                             ELSE IF c_close > ema3 THEN <<c_close>> ELSE <<ema3>>,
              max_profit_updated |-> MaxProfitUpdated(tsl_result, max_profit_seen),
              tsl_result |-> tsl_result]

\* the last exit evaluation, and the object and arguments it was made with
NoStop == [order_id |-> 0, enabled |-> FALSE, trigger_percent |-> 0,
           trail_percent |-> 0, entry_price |-> 0, current_price |-> 0,
           max_profit_seen |-> 0, evals |-> 0, result |-> NoStopResult,
           max_profit_updated |-> 0, exit_signal |-> FALSE,
           exit_price |-> NoneT,
           pending |-> FALSE]     \* execute_exit is about to be called

\* TrailingStopLoss(trigger_percent, trail_percent) is constructed for a position
\* entered at entry_price; self.enabled comes from the configuration
TrailingStopLossInit(enabled, trigger_percent, trail_percent, entry_price) ==
    /\ tsl' = [NoStop EXCEPT !.enabled = enabled, !.trigger_percent = trigger_percent,
                             !.trail_percent = trail_percent,
                             !.entry_price = entry_price]
    /\ UNCHANGED <<LIVE_FLAG, om, vp, dbt, scan, now, breakerVars, wrapperVars, riskVars,
                   ledgerVars>>

\* calculate_stop_loss is applied to current_price and max_profit_seen
CalcStop(current_price, max_profit_seen) ==
    LET r == calculate_stop_loss(tsl.enabled, tsl.trigger_percent, tsl.trail_percent,
                                 tsl.entry_price, current_price, max_profit_seen)
    IN
    /\ tsl.entry_price > 0
    /\ tsl' = [tsl EXCEPT !.current_price = current_price,
                          !.max_profit_seen = max_profit_seen,
                          !.evals = IF @ < 2 THEN @ + 1 ELSE @,
                          !.result = r,
                          !.max_profit_updated = MaxProfitUpdated(r, max_profit_seen),
                          !.exit_signal = r.should_exit]
    /\ UNCHANGED <<LIVE_FLAG, om, vp, dbt, scan, now, breakerVars, wrapperVars, riskVars,
                   ledgerVars>>

(***************************************************************************)
(* OrderManager.get_open_positions and verify_position                     *)
(***************************************************************************)
MaxPositions == 2      \* positions in the broker's answer

\* a position of the broker's list: 'tradingsymbol' and 'netqty' (absent: None)
PositionRecords == [tradingsymbol : Symbols, netqty : {NoneT, <<0>>, <<50>>, <<75>>}]
\* what self.api.get_positions() does: it raises, or returns the list in 'data'
PositionAnswers ==
    {[raised |-> TRUE, data |-> <<>>]}
    \cup {[raised |-> FALSE, data |-> d] :
             d \in UNION {[1..n -> PositionRecords] : n \in 0..MaxPositions}}

\* if int(pos.get('netqty', 0)) != 0
NonZero(pos) == IntOf(pos.netqty) /= 0

\* get_open_positions(): [] when the call raises
get_open_positions(answer) ==
    IF answer.raised THEN <<>> ELSE SelectSeq(answer.data, NonZero)

\* if actual_qty == expected_quantity
QuantityAtLeast(actual_qty, expected_quantity) == actual_qty >= expected_quantity
QuantityMatches(actual_qty, expected_quantity) == actual_qty = expected_quantity

\* the return value of verify_position(tradingsymbol, expected_quantity)
VerifyResult(positions, tradingsymbol, expected_quantity) ==
    LET matching == SelectSeq(positions, LAMBDA pos : pos.tradingsymbol = tradingsymbol)
    IN  IF matching = <<>>
        THEN [verified |-> FALSE, actual_quantity |-> 0, message |-> "Position not found"]
        ELSE LET actual_qty == IntOf(matching[1].netqty) IN
             IF QuantityMatches(actual_qty, expected_quantity)
             THEN [verified |-> TRUE, actual_quantity |-> actual_qty,
                   message |-> "Position verified successfully"]
             ELSE [verified |-> FALSE, actual_quantity |-> actual_qty,
                   message |-> "Quantity mismatch"]

NoVerify == [calls |-> 0, answer |-> [raised |-> TRUE, data |-> <<>>], tradingsymbol |-> "",
             expected_quantity |-> 0,
             result |-> [verified |-> FALSE, actual_quantity |-> 0, message |-> ""]]

\* verify_position(tradingsymbol, expected_quantity) against the broker's answer
verify_position(tradingsymbol, expected_quantity, answer) ==
    /\ vp' = [calls |-> 1, answer |-> answer, tradingsymbol |-> tradingsymbol,
              expected_quantity |-> expected_quantity,
              result |-> VerifyResult(get_open_positions(answer), tradingsymbol,
                                      expected_quantity)]
    /\ UNCHANGED <<LIVE_FLAG, om, tsl, dbt, scan, now, breakerVars, wrapperVars,
                   riskVars, ledgerVars>>

(***************************************************************************)
(* TradingDatabase.lock: update_sell_trade in two threads                  *)
(***************************************************************************)
Threads == {1, 2}

IdleThread == [pc |-> "idle", order_id |-> 0, sell_data |-> NoneT,
               buy_total |-> NoneT, saw_daily |-> FALSE, outcome |-> "none"]
\* the lock is free (holder 0) and no thread is in update_sell_trade
NoThreads == [holder |-> 0, th |-> [t \in Threads |-> IdleThread]]

\* threading.Lock.acquire(): the caller goes on only when no thread holds it
LockIgnored(holder) == TRUE
LockFree(holder) == holder = 0

DbFrame == UNCHANGED <<LIVE_FLAG, om, tsl, vp, scan, now, breakerVars, wrapperVars,
                       riskVars>>

\* update_sell_trade(order_id, sell_data) is called in thread t: with self.lock
SellAcquire(t, order_id, sell_data) ==
    /\ dbt.th[t].pc = "idle"
    /\ LockFree(dbt.holder)
    /\ dbt' = [holder |-> t,
               th |-> [dbt.th EXCEPT ![t] = [IdleThread EXCEPT !.pc = "locked",
                                               !.order_id = order_id,
                                               !.sell_data = <<sell_data>>]]]
    /\ UNCHANGED ledgerVars /\ DbFrame

\* SELECT buy_price, buy_quantity of the row; profit_loss is computed and the
\* UPDATE of the row is issued on the thread's own connection
SellSelectRow(t) ==
    LET me == dbt.th[t]
        found == {i \in DOMAIN trades : trades[i].order_id = me.order_id}
        row == trades[CHOOSE i \in found : TRUE]
    IN
    /\ me.pc = "locked"
    /\ IF found = {}
       THEN \* no row: commit and close, nothing is written, the lock is released
            dbt' = [holder |-> IF dbt.holder = t THEN 0 ELSE dbt.holder,
                    th |-> [dbt.th EXCEPT ![t] = [me EXCEPT !.pc = "done",
                                                            !.outcome = "no row"]]]
       ELSE IF row.buy_price = NoneT \/ row.buy_quantity = NoneT
       THEN \* TypeError leaves the with block: the lock is released
            dbt' = [holder |-> IF dbt.holder = t THEN 0 ELSE dbt.holder,
                    th |-> [dbt.th EXCEPT ![t] = [me EXCEPT !.pc = "done",
                                                            !.outcome = "TypeError"]]]
       ELSE dbt' = [dbt EXCEPT !.th[t] =
                       [me EXCEPT !.pc = "row_read",
                                  !.buy_total = <<row.buy_quantity[1] * row.buy_price[1]>>]]
    /\ UNCHANGED ledgerVars /\ DbFrame

\* _update_daily_pnl: SELECT * FROM daily_pnl WHERE trade_date = ?
SellSelectDaily(t) ==
    /\ dbt.th[t].pc = "row_read"
    /\ dbt' = [dbt EXCEPT !.th[t] = [@ EXCEPT !.pc = "daily_read",
                                              !.saw_daily = daily_pnl /= NoneT]]
    /\ UNCHANGED ledgerVars /\ DbFrame

\* the UPDATE or INSERT of daily_pnl, conn.commit(), conn.close() and the end of
\* the with block; an INSERT for a date that has a row by now fails on
\* trade_date UNIQUE and nothing of the call is committed
SellCommit(t) ==
    LET me == dbt.th[t]
        sell_data == me.sell_data[1]
        profit_loss == sell_data.sell_quantity * sell_data.sell_price - me.buy_total[1]
        i == CHOOSE j \in DOMAIN trades : trades[j].order_id = me.order_id
        integrityError == ~me.saw_daily /\ daily_pnl /= NoneT
    IN
    /\ me.pc = "daily_read"
    /\ IF integrityError
       THEN UNCHANGED ledgerVars
       ELSE /\ trades' = [trades EXCEPT ![i] =
                            [@ EXCEPT !.sell_quantity = <<sell_data.sell_quantity>>,
                                      !.sell_price = <<sell_data.sell_price>>,
                                      !.shyam_status = sell_data.shyam_status,
                                      !.profit_loss = <<profit_loss>>]]
            /\ daily_pnl' = update_daily_pnl(profit_loss)
    /\ dbt' = [holder |-> IF dbt.holder = t THEN 0 ELSE dbt.holder,
               th |-> [dbt.th EXCEPT ![t] =
                         [me EXCEPT !.pc = "done",
                                    !.outcome = IF integrityError THEN "IntegrityError"
                                                ELSE "committed"]]]
    /\ DbFrame

(***************************************************************************)
(* Specifications                                                          *)
(***************************************************************************)
\* the symbol process_entry_signals is at, and how far it has got with it
\* loop is where run() is: at the top of an iteration ("top"), in
\* process_entry_signals ("entries") or in process_exit_signals ("exits")
NoScan == [pc |-> "idle", tradingsymbol |-> "none", quantity |-> 0,
           entry_price |-> 0, order_result |-> [success |-> FALSE,
                                                confirmation |-> "none"],
           loop |-> "top"]
\* the loop goes on to its next symbol
NextSymbol(s) == [NoScan EXCEPT !.loop = s.loop]

WrapperIdle == frame = IdleFrame /\ streak = IdleStreak
LedgerEmpty == trades = <<>> /\ daily_pnl = NoneT
\* config.LIVE_FLAG = 'LIVE_TEST'; no OrderManager call and no exit evaluation yet
AppIdle ==
    /\ LIVE_FLAG = "LIVE_TEST" /\ om = IdleOrder /\ tsl = NoStop
    /\ vp = NoVerify /\ dbt = NoThreads /\ scan = NoScan

\* --- a CircuitBreaker with any threshold and timeout, called at any times
InitBreaker ==
    /\ \E ft \in 1..MaxThreshold, to \in 0..MaxTimeout : CircuitBreakerInit(ft, to)
    /\ now = 0
    /\ WrapperIdle /\ RiskManagerInit /\ LedgerEmpty /\ AppIdle

Call ==
    \E outcome \in {"ok", "fail"}, dur \in 0..1 :
        CbCall(outcome, dur) /\ UNCHANGED <<wrapperVars, riskVars, ledgerVars, appVars>>
Reset == CbReset /\ UNCHANGED <<wrapperVars, riskVars, ledgerVars, appVars>>
Clock == \E d \in 1..MaxStep : Tick(d)

NextBreaker == Call \/ Reset \/ Clock
SpecBreaker == InitBreaker /\ [][NextBreaker]_vars

\* --- SafeAPIWrapper's methods and a bare decorated function, called in turn;
\* --- the module's _circuit_breaker is constructed and nothing calls it
InitWrapper ==
    /\ CircuitBreakerInit(CB_FAILURE_THRESHOLD, CB_TIMEOUT)
    /\ now = 0
    /\ WrapperIdle /\ RiskManagerInit /\ LedgerEmpty /\ AppIdle

CallPlaceOrder == \E params \in ParamChoices : StartCall("place_order", params, 0)
CallQuery == \E site \in WrapperSites \ {"place_order"} : StartCall(site, {}, 0)
CallDecorated == \E n \in 0..MaxRetries : StartCall("func", {}, n)
RunAttempt == \E b \in {"raise", "empty", "status_false", "no_id", "no_data",
                        "empty_data", "ok"} : Attempt(b)

NextWrapper == CallPlaceOrder \/ CallQuery \/ CallDecorated \/ RunAttempt
SpecWrapper == InitWrapper /\ [][NextWrapper]_vars

\* --- a RiskManager over the ledger as the application writes it with
\* --- LIVE_FLAG = 'LIVE_TEST': trades are inserted as 'buy_complete', a trade's
\* --- fill is recorded once, and open trades are sold
EntryPrices == {499, 500, 1500, 1501}
Quantities == {50}
FillPrices == {500}
SellPrices == {400, 600}

InitRisk ==
    /\ CircuitBreakerInit(CB_FAILURE_THRESHOLD, CB_TIMEOUT)
    /\ now = 0
    /\ WrapperIdle /\ RiskManagerInit /\ LedgerEmpty /\ AppIdle

CanEnter ==
    \E tradingsymbol \in Symbols, entry_price \in EntryPrices, quantity \in Quantities :
        can_enter_trade(tradingsymbol, entry_price, quantity) /\ UNCHANGED scan
Halt == halt_trading(<<"manual">>)
Resume == resume_trading

LedgerWrite(op) ==
    /\ op
    /\ decision' = NoDecision
    /\ queries' = <<>>
    /\ UNCHANGED <<trading_enabled, halt_reason, now, breakerVars, wrapperVars, appVars>>

Unfilled == {i \in DOMAIN trades : trades[i].buy_price = NoneT}
Open == {i \in DOMAIN trades : trades[i].shyam_status = "buy_complete"}

MaxRiskTrades == 3     \* rows of the trades table in this specification

Insert ==
    \E tradingsymbol \in Symbols, q \in Quantities, p \in FillPrices,
       same_second \in BOOLEAN :
        /\ Len(trades) < MaxRiskTrades
        /\ LedgerWrite(insert_trade([tradingsymbol |-> tradingsymbol,
                                     order_quantity |-> q,
                                     order_price |-> p, shyam_status |-> "buy_complete"],
                                    same_second))
UpdateBuy ==
    \E i \in Unfilled, q \in Quantities, p \in FillPrices :
        LedgerWrite(update_buy_trade(trades[i].order_id,
            [buy_quantity |-> q, buy_price |-> p, shyam_status |-> "buy_complete"]))
UpdateSell ==
    \E i \in Open, q \in Quantities, p \in SellPrices :
        LedgerWrite(update_sell_trade(trades[i].order_id,
            [sell_quantity |-> q, sell_price |-> p, shyam_status |-> "sell_complete"]))

NextRisk == CanEnter \/ Halt \/ Resume \/ Insert \/ UpdateBuy \/ UpdateSell
SpecRisk == InitRisk /\ [][NextRisk]_vars

\* --- the scan loop over the ledger, in either mode of config.LIVE_FLAG: an
\* --- entry follows an allowed can_enter_trade, a fill may be recorded with
\* --- update_buy_trade, and open trades go through the exit evaluation
MaxAppTrades == 2      \* rows of the trades table in this specification

\* config.BUY_* is taken to be 250, so that a position at entry_price_estimate
\* is of an accepted size
AppQuantities == {250}
AppEntryPrices == {200, 400}
Closes == {198, 201, 206}
Ema3s == {200}

\* entry_price_estimate = 100  # Placeholder, will be calculated
entry_price_estimate == 100

\* place_buy_order's return value, as far as a caller can tell results apart:
\* 'success', and the status of 'confirmation' when there is one
BuyResults ==
    {[success |-> FALSE, confirmation |-> "none"]}
        \cup {[success |-> TRUE, confirmation |-> status] :
                  status \in {"complete", "rejected", "timeout"}}

\* if not risk_check['allowed']: continue
EntryAllowedAlways(risk_check) == TRUE
EntryAllowed(risk_check) == risk_check.allowed

\* run(): process_entry_signals has returned before process_exit_signals is
\* called, and the loop is at one symbol at a time
BetweenSymbols(s) == s.pc = "idle"

InitApp ==
    /\ CircuitBreakerInit(CB_FAILURE_THRESHOLD, CB_TIMEOUT)
    /\ now = 0
    /\ WrapperIdle /\ RiskManagerInit /\ LedgerEmpty
    /\ LIVE_FLAG \in {"LIVE", "LIVE_TEST"}
    /\ om = IdleOrder /\ tsl = NoStop /\ vp = NoVerify /\ dbt = NoThreads
    /\ scan = NoScan

\* process_entry_signals, one symbol of the loop up to the first risk check,
\* made with entry_price_estimate; a rejection is `continue`
ScanSymbolOf(quantities) ==
    /\ ~tsl.pending /\ BetweenSymbols(scan)
    /\ \E tradingsymbol \in Symbols, quantity \in quantities :
         /\ can_enter_trade(tradingsymbol, entry_price_estimate, quantity)
         /\ scan' = IF EntryAllowed(decision')
                    THEN [scan EXCEPT !.pc = "estimated",
                                      !.tradingsymbol = tradingsymbol,
                                      !.quantity = quantity]
                    ELSE NextSymbol(scan)
ScanSymbol == ScanSymbolOf(AppQuantities)

\* process_entry_signals, the same symbol from fetch_candle_data on: without
\* data or without an entry signal nothing else is done; with a signal the risk
\* check is made again with the signal's entry price, and a rejection is `continue`
RiskCheckEntry ==
    /\ scan.pc = "estimated"
    /\ \E data_ok \in BOOLEAN, entry_signal \in BOOLEAN,
          entry_price \in AppEntryPrices :
         \* what a scan does not read is left at one value
         /\ ~data_ok => ~entry_signal
         /\ ~entry_signal => entry_price = 200
         /\ IF entry_signal
            THEN /\ can_enter_trade(scan.tradingsymbol, entry_price, scan.quantity)
                 /\ scan' = IF EntryAllowed(decision')
                            THEN [scan EXCEPT !.pc = "checked",
                                              !.entry_price = entry_price]
                            ELSE NextSymbol(scan)
            ELSE /\ scan' = NextSymbol(scan)
                 /\ UNCHANGED <<riskVars, ledgerVars, now, breakerVars, wrapperVars,
                                LIVE_FLAG, om, tsl, vp, dbt>>

\* execute_entry, up to the return of place_buy_order: the order is submitted
\* and, if the broker gave an order id, confirm_order_placement has returned
EntryOrder ==
    /\ scan.pc = "checked"
    /\ \E order_result \in BuyResults :
         scan' = [scan EXCEPT !.pc = "ordered", !.order_result = order_result]
    /\ UNCHANGED <<riskVars, ledgerVars, now, breakerVars, wrapperVars,
                   LIVE_FLAG, om, tsl, vp, dbt>>

\* execute_entry(df_data, tradingsymbol, symboltoken, quantity, entry_result),
\* from `if order_result['success']` on; order_success is place_buy_order's
\* 'success'
RecordAnyEntry(tradingsymbol, quantity, entry_price, order_success, same_second) ==
    insert_trade([tradingsymbol |-> tradingsymbol, order_quantity |-> quantity,
                  order_price |-> entry_price,
                  shyam_status |-> IF LIVE_FLAG = "LIVE" THEN "ordered"
                                   ELSE "buy_complete"],
                 same_second)
execute_entry(tradingsymbol, quantity, entry_price, order_success, same_second) ==
    IF order_success
    THEN insert_trade([tradingsymbol |-> tradingsymbol, order_quantity |-> quantity,
                       order_price |-> entry_price,
                       shyam_status |-> IF LIVE_FLAG = "LIVE" THEN "ordered"
                                        ELSE "buy_complete"],
                      same_second)
    ELSE /\ UNCHANGED <<trades, daily_pnl>>
         /\ last_op' = [name |-> "execute_entry", args |-> <<"order failed">>]

\* process_entry_signals enters the trade its risk check has just allowed:
\* execute_entry, after place_buy_order has returned
ExecuteEntryUpTo(rows) ==
    /\ scan.pc = "ordered"
    /\ Len(trades) < rows
    /\ \E same_second \in BOOLEAN :
         execute_entry(scan.tradingsymbol, scan.quantity, scan.entry_price,
                       scan.order_result.success, same_second)
    /\ scan' = NextSymbol(scan)
    /\ decision' = NoDecision
    /\ queries' = <<>>
    /\ UNCHANGED <<trading_enabled, halt_reason, now, breakerVars, wrapperVars,
                   LIVE_FLAG, om, tsl, vp, dbt>>
ExecuteEntry == ExecuteEntryUpTo(MaxAppTrades)

\* the broker's fill of a recorded order is written with update_buy_trade
RecordFill ==
    /\ ~tsl.pending /\ BetweenSymbols(scan)
    /\ \E i \in Unfilled :
         LedgerWrite(update_buy_trade(trades[i].order_id,
            [buy_quantity |-> trades[i].order_quantity,
             buy_price |-> trades[i].order_price, shyam_status |-> "buy_complete"]))

\* process_exit_signals, one trade of get_open_trades(): the candle data is
\* fetched, the exit conditions are checked and max_profit_seen is stored if
\* it has changed; an exit signal leaves execute_exit to be called
process_exit(trade, data_ok, indicators_ok, rsi_exit, c_close, ema3) ==
    LET entry_price == trade.order_price
        max_profit_seen == trade.max_profit_seen
        exit_result == check_exit_conditions_v2(indicators_ok, rsi_exit, c_close, ema3,
                                                entry_price, max_profit_seen)
    IN  IF ~data_ok
        THEN /\ UNCHANGED <<trades, daily_pnl, tsl>>
             /\ last_op' = [name |-> "process_exit",
                            args |-> <<trade.order_id, "no data">>]
        ELSE /\ IF exit_result.max_profit_updated /= max_profit_seen
                THEN update_max_profit_seen(trade.order_id,
                                            exit_result.max_profit_updated)
                ELSE UNCHANGED <<trades, daily_pnl>>
             /\ last_op' = [name |-> "process_exit",
                            args |-> <<trade.order_id,
                                       IF indicators_ok THEN "checked"
                                       ELSE "missing indicators",
                                       c_close, exit_result.exit_signal>>]
             /\ tsl' = IF ~exit_result.exit_signal THEN NoStop
                       ELSE [NoStop EXCEPT !.order_id = trade.order_id,
                                !.exit_signal = TRUE,
                                !.exit_price = exit_result.exit_price,
                                !.pending = TRUE]

ProcessExit ==
    /\ ~tsl.pending /\ BetweenSymbols(scan)
    /\ \E k \in DOMAIN get_open_trades(NoneT), data_ok \in BOOLEAN,
          indicators_ok \in BOOLEAN, rsi_exit \in BOOLEAN,
          c_close \in Closes, ema3 \in Ema3s :
            \* what a scan does not read is left at one value
            /\ ~data_ok => ~indicators_ok
            /\ ~indicators_ok => (~rsi_exit /\ c_close = 198)
            /\ process_exit(get_open_trades(NoneT)[k], data_ok, indicators_ok,
                            rsi_exit, c_close, ema3)
    /\ decision' = NoDecision
    /\ queries' = <<>>
    /\ UNCHANGED <<trading_enabled, halt_reason, now, breakerVars, wrapperVars,
                   LIVE_FLAG, om, vp, dbt, scan>>

\* execute_exit(trade, exit_result); order_success is place_sell_order's 'success'
execute_exit(order_id, quantity, exit_price, order_success) ==
    IF order_success
    THEN update_sell_trade(order_id,
            [sell_quantity |-> quantity, sell_price |-> exit_price,
             shyam_status |-> IF LIVE_FLAG = "LIVE" THEN "sell_ordered"
                              ELSE "sell_complete"])
    ELSE /\ UNCHANGED <<trades, daily_pnl>>
         /\ last_op' = [name |-> "execute_exit", args |-> <<"order failed">>]

ExecuteExit ==
    /\ tsl.pending
    /\ \E i \in DOMAIN trades, order_success \in BOOLEAN :
         /\ trades[i].order_id = tsl.order_id
         /\ execute_exit(tsl.order_id, trades[i].order_quantity, tsl.exit_price[1],
                         order_success)
    /\ tsl' = NoStop
    /\ decision' = NoDecision
    /\ queries' = <<>>
    /\ UNCHANGED <<trading_enabled, halt_reason, now, breakerVars, wrapperVars,
                   LIVE_FLAG, om, vp, dbt, scan>>

NextApp == ScanSymbol \/ RiskCheckEntry \/ EntryOrder \/ ExecuteEntry \/ RecordFill
           \/ ProcessExit \/ ExecuteExit
SpecApp == InitApp /\ [][NextApp]_vars
\* run() goes on: the application's thread is never suspended for good
SpecAppFair == SpecApp /\ WF_vars(NextApp)


\* --- process_entry_signals alone, symbol after symbol, in either mode of
\* --- config.LIVE_FLAG, with the quantity config.py gives NIFTY (BUY_NIFTY_1)
\* --- and one that passes the first risk check
EntryQuantities == {75, 250}

EntryScan == ScanSymbolOf(EntryQuantities)
EntryRecord == ExecuteEntryUpTo(MaxTrades)

NextEntry == EntryScan \/ RiskCheckEntry \/ EntryOrder \/ EntryRecord
SpecEntry == InitApp /\ [][NextEntry]_vars

\* --- run(): the main loop, iteration after iteration; an iteration is skipped
\* --- while trading is halted, and otherwise is process_entry_signals followed
\* --- by process_exit_signals. Between iterations halt_trading may be called
\* --- and a fill may be recorded
\* the top of an iteration: if not self.risk_manager.trading_enabled: continue
RunIteration ==
    /\ scan.loop = "top" /\ ~tsl.pending
    /\ scan' = IF trading_enabled THEN [scan EXCEPT !.loop = "entries"] ELSE scan
    /\ last_op' = [name |-> "run",
                   args |-> <<IF trading_enabled THEN "iteration" ELSE "skipped">>]
    /\ UNCHANGED <<trading_enabled, halt_reason, decision, queries, ledgerVars, now,
                   breakerVars, wrapperVars, LIVE_FLAG, om, tsl, vp, dbt>>

\* process_entry_signals, symbol after symbol, and its return
RunEntries ==
    /\ scan.loop = "entries"
    /\ ScanSymbol \/ RiskCheckEntry \/ EntryOrder \/ ExecuteEntry
EntriesDone ==
    /\ scan.loop = "entries" /\ BetweenSymbols(scan)
    /\ scan' = [scan EXCEPT !.loop = "exits"]
    /\ UNCHANGED <<riskVars, ledgerVars, now, breakerVars, wrapperVars,
                   LIVE_FLAG, om, tsl, vp, dbt>>

\* process_exit_signals, trade after trade, and its return
RunExits ==
    /\ scan.loop = "exits"
    /\ ProcessExit \/ ExecuteExit
ExitsDone ==
    /\ scan.loop = "exits" /\ ~tsl.pending
    /\ scan' = [scan EXCEPT !.loop = "top"]
    /\ UNCHANGED <<riskVars, ledgerVars, now, breakerVars, wrapperVars,
                   LIVE_FLAG, om, tsl, vp, dbt>>

RunHalt == scan.loop = "top" /\ trading_enabled /\ halt_trading(<<"manual">>)
RunFill == scan.loop = "top" /\ RecordFill

NextRun == RunIteration \/ RunEntries \/ EntriesDone \/ RunExits \/ ExitsDone
           \/ RunHalt \/ RunFill
SpecRun == InitApp /\ [][NextRun]_vars

\* --- OrderManager: place_buy_order, place_sell_order and
\* --- confirm_order_placement called one after the other, against a broker
\* --- that answers each request in any of the ways the code distinguishes
InitOrder ==
    /\ CircuitBreakerInit(CB_FAILURE_THRESHOLD, CB_TIMEOUT)
    /\ now = 0
    /\ WrapperIdle /\ RiskManagerInit /\ LedgerEmpty /\ AppIdle

PlaceBuy == place_buy_order
PlaceSell ==
    \E order_type \in {"MARKET", "LIMIT"}, exit_price \in {NoneT, <<1020>>} :
        place_sell_order(order_type, exit_price)
Confirm == \E max_wait \in 0..MaxWait : confirm_order_placement(max_wait)
PlaceStep == \E b \in BrokerOutcomes("place_order") : PlaceAttempt(b)
ApiStep == \E b \in BrokerOutcomes("get_order_details") : LookupAttempt(b)
PollDone == \E raw \in RawStatuses, filledshares \in FilledShares :
                PollReturn(raw, filledshares)
LookupDone == \E book \in BookOutcomes : LookupReturn(book)

NextOrder == PlaceBuy \/ PlaceSell \/ Confirm \/ PlaceStep \/ PlaceReturn
             \/ ConfirmLoop \/ ApiStep \/ PollDone \/ LookupDone
SpecOrder == InitOrder /\ [][NextOrder]_vars
\* a call in progress goes on: the thread that runs it is never suspended for good
SpecOrderFair == SpecOrder /\ WF_vars(NextOrder)

\* --- a TrailingStopLoss of any configuration over a position's prices: an
\* --- evaluation is given either the max profit the previous one returned, as
\* --- process_exit_signals stores and reads it back, or any max profit
\* the price moves in steps of half a percent of the entry price
PricesAround(entry_price) ==
    {entry_price + k * (entry_price \div 200) : k \in {-8, -1, 0, 1, 2, 3, 4, 5, 6}}

InitTrail ==
    /\ CircuitBreakerInit(CB_FAILURE_THRESHOLD, CB_TIMEOUT)
    /\ now = 0
    /\ WrapperIdle /\ RiskManagerInit /\ LedgerEmpty /\ AppIdle

NewPosition ==
    \E enabled \in BOOLEAN, trigger_percent \in {150, 200},
       trail_percent \in {50, 100}, entry_price \in {200, 400} :
        TrailingStopLossInit(enabled, trigger_percent, trail_percent, entry_price)
\* max_profit_seen is the stored value: 0 at first, then max_profit_updated
EvaluateStored ==
    \E current_price \in PricesAround(tsl.entry_price) :
        CalcStop(current_price, tsl.max_profit_updated)
EvaluateAny ==
    \E current_price \in PricesAround(tsl.entry_price),
       max_profit_seen \in {0, 50, 150, 300} :
        CalcStop(current_price, max_profit_seen)

NextTrail == NewPosition \/ EvaluateStored \/ EvaluateAny
SpecTrail == InitTrail /\ [][NextTrail]_vars

\* --- verify_position called with any symbol and expected quantity, against
\* --- any answer of the broker's position query
InitVerify ==
    /\ CircuitBreakerInit(CB_FAILURE_THRESHOLD, CB_TIMEOUT)
    /\ now = 0
    /\ WrapperIdle /\ RiskManagerInit /\ LedgerEmpty /\ AppIdle

VerifyPosition ==
    /\ vp.calls = 0
    /\ \E tradingsymbol \in Symbols, expected_quantity \in {0, 50, 75},
          answer \in PositionAnswers :
            verify_position(tradingsymbol, expected_quantity, answer)

NextVerify == VerifyPosition
SpecVerify == InitVerify /\ [][NextVerify]_vars

\* --- the ledger under any sequence of its write operations: a trade is
\* --- inserted, its fill is recorded, and any trade whose fill is recorded is
\* --- given a sell update, with either status and any number of times
MaxLedgerRows == 2     \* rows of the trades table in this specification
MaxSellUpdates == 3    \* sell updates of one day in this specification

InitLedger ==
    /\ CircuitBreakerInit(CB_FAILURE_THRESHOLD, CB_TIMEOUT)
    /\ now = 0
    /\ WrapperIdle /\ RiskManagerInit /\ LedgerEmpty /\ AppIdle

InsertTrade ==
    /\ Len(trades) < MaxLedgerRows
    /\ \E shyam_status \in {"ordered", "buy_complete"}, same_second \in BOOLEAN :
        LedgerWrite(insert_trade([tradingsymbol |-> "NIFTY", order_quantity |-> 50,
                                  order_price |-> 500, shyam_status |-> shyam_status],
                                 same_second))
UpdateBuyTrade ==
    \E i \in Unfilled :
        LedgerWrite(update_buy_trade(trades[i].order_id,
            [buy_quantity |-> 50, buy_price |-> 500, shyam_status |-> "buy_complete"]))
UpdateSellTrade ==
    /\ get_today_pnl.total_trades < MaxSellUpdates
    /\ \E i \in DOMAIN trades, p \in {400, 500, 600},
          shyam_status \in {"sell_ordered", "sell_complete"} :
        LedgerWrite(update_sell_trade(trades[i].order_id,
            [sell_quantity |-> 50, sell_price |-> p, shyam_status |-> shyam_status]))

NextLedger == InsertTrade \/ UpdateBuyTrade \/ UpdateSellTrade
SpecLedger == InitLedger /\ [][NextLedger]_vars

\* --- two threads call update_sell_trade, each once and for a trade of its
\* --- own, on a ledger whose trades were inserted and filled beforehand
InitLock ==
    /\ CircuitBreakerInit(CB_FAILURE_THRESHOLD, CB_TIMEOUT)
    /\ now = 0
    /\ WrapperIdle /\ RiskManagerInit /\ LedgerEmpty /\ AppIdle

NoSellYet == \A t \in Threads : dbt.th[t].pc = "idle"

InsertFilled ==
    /\ NoSellYet /\ Len(trades) < MaxLedgerRows
    /\ LedgerWrite(insert_trade([tradingsymbol |-> "NIFTY", order_quantity |-> 50,
                                 order_price |-> 500, shyam_status |-> "buy_complete"],
                                FALSE))
FillTrade ==
    /\ NoSellYet
    /\ \E i \in Unfilled :
        LedgerWrite(update_buy_trade(trades[i].order_id,
            [buy_quantity |-> 50, buy_price |-> 500, shyam_status |-> "buy_complete"]))
SellStart ==
    \E t \in Threads, i \in Open, p \in {400, 500, 600} :
        /\ \A u \in Threads : dbt.th[u].order_id /= trades[i].order_id
        /\ SellAcquire(t, trades[i].order_id,
                       [sell_quantity |-> 50, sell_price |-> p,
                        shyam_status |-> "sell_complete"])
SellStep ==
    \E t \in Threads : SellSelectRow(t) \/ SellSelectDaily(t) \/ SellCommit(t)

NextLock == InsertFilled \/ FillTrade \/ SellStart \/ SellStep
SpecLock == InitLock /\ [][NextLock]_vars

(***************************************************************************)
(* Properties of CircuitBreaker (SpecBreaker)                              *)
(***************************************************************************)
\* C1: after any sequence of calls and resets, the breaker is CLOSED whenever
\* failure_count < failure_threshold, and the failing call that brings
\* failure_count to exactly failure_threshold leaves it OPEN.
C1_ClosedBelowThreshold ==
    /\ (failure_count < failure_threshold => state = "CLOSED")
    /\ (cb_last.op = "call" /\ cb_last.result = "fail"
            /\ failure_count = failure_threshold => state = "OPEN")

C1_Witness ==
    /\ failure_threshold >= 2
    /\ cb_last.op = "call" /\ cb_last.result = "fail" /\ cb_last.pre_state = "CLOSED"
    /\ failure_count = failure_threshold
    /\ state = "OPEN"

\* C2: a call made on an OPEN breaker while now - last_failure_time <= timeout
\* is rejected, the operation is not invoked and the breaker stays OPEN; the
\* operation is invoked on an OPEN breaker only when the call observes
\* now - last_failure_time > timeout, and then the state is HALF_OPEN at the
\* moment of the invocation.
C2_OpenRejectsUntilTimeout ==
    (cb_last.op = "call" /\ cb_last.pre_state = "OPEN") =>
        /\ cb_last.elapsed /= NoneT
        /\ (cb_last.elapsed[1] <= timeout =>
                ~cb_last.invoked /\ cb_last.result = "rejected" /\ state = "OPEN")
        /\ (cb_last.invoked =>
                cb_last.elapsed[1] > timeout /\ cb_last.state_at_invoke = "HALF_OPEN")

C2_Witness ==
    /\ cb_last.op = "call" /\ cb_last.pre_state = "OPEN"
    /\ cb_last.result = "rejected"
    /\ timeout >= 1
    /\ cb_last.elapsed = <<timeout>>

\* C25: when the breaker is HALF_OPEN and the trial call succeeds, the state
\* becomes CLOSED and failure_count is 0, and the breaker is OPEN only with
\* failure_count >= failure_threshold: failure_threshold further failures are
\* needed to open it again.
C25_TrialSuccessCloses ==
    /\ (cb_last.op = "call" /\ cb_last.state_at_invoke = "HALF_OPEN"
            /\ cb_last.result = "ok")
         => (state = "CLOSED" /\ failure_count = 0)
    /\ state = "OPEN" => failure_count >= failure_threshold

C25_Witness ==
    /\ failure_threshold >= 2
    /\ cb_last.op = "call" /\ cb_last.pre_state = "OPEN"
    /\ cb_last.state_at_invoke = "HALF_OPEN" /\ cb_last.result = "ok"
    /\ state = "CLOSED"

\* C26: when the breaker is HALF_OPEN and the trial call fails, the state is
\* OPEN again and last_failure_time is the time of that failure; a call on an
\* OPEN breaker is let through only when more than timeout has passed since
\* last_failure_time, so the next trial needs a further full timeout.
C26_TrialFailureReopens ==
    [][/\ (state = "OPEN" /\ failure_count' = failure_count + 1) =>
            /\ cb_last'.state_at_invoke = "HALF_OPEN" /\ cb_last'.result = "fail"
            /\ state' = "OPEN"
            /\ last_failure_time' = <<now'>>
       /\ (state = "OPEN" /\ cb_last'.op = "call"
              /\ (failure_count' /= failure_count \/ state' /= state)) =>
            now - last_failure_time[1] > timeout]_vars

\* the trial has just failed, and a full timeout of at least a second is ahead
C26_Witness ==
    /\ timeout >= 1
    /\ cb_last.op = "call" /\ cb_last.pre_state = "OPEN"
    /\ cb_last.state_at_invoke = "HALF_OPEN" /\ cb_last.result = "fail"
    /\ state = "OPEN" /\ last_failure_time = <<now>>

\* C35: the failure counter counts consecutive failures: a successful call made
\* while the breaker is CLOSED leaves failure_count at 0, so that failures
\* separated by successes never open the breaker.
C35_SuccessResetsCount ==
    [][ ( /\ cb_last' /= cb_last
          /\ cb_last'.op = "call" /\ cb_last'.invoked
          /\ cb_last'.result = "ok" )
            => failure_count' = 0 ]_vars

\* C36: in every state reached by calls and resets, an OPEN breaker has
\* failure_count >= failure_threshold and a last_failure_time, no call meets a
\* missing timestamp in its elapsed-time test, and a call that makes its trial
\* as HALF_OPEN starts from such a counter and timestamp.
C36_OpenHasCountAndTime ==
    /\ []( /\ state /= "HALF_OPEN"
           /\ state = "OPEN" => /\ failure_count >= failure_threshold
                                /\ last_failure_time /= NoneT
           /\ cb_last.result /= "TypeError" )
    /\ [][ ( /\ cb_last'.op = "call" /\ cb_last'.state_at_invoke = "HALF_OPEN"
              /\ (state' /= state \/ failure_count' /= failure_count) ) =>
              /\ state = "OPEN"
              /\ failure_count >= failure_threshold
              /\ last_failure_time /= NoneT ]_vars

\* an OPEN breaker has been reset and opened again by later failures
C36_Witness ==
    /\ state = "OPEN" /\ failure_threshold >= 2
    /\ failure_count = failure_threshold
    /\ cb_last.op = "call" /\ cb_last.pre_state = "CLOSED" /\ cb_last.result = "fail"
    /\ last_failure_time /= NoneT /\ last_failure_time[1] >= 4

(***************************************************************************)
(* Properties of retry_on_failure and SafeAPIWrapper (SpecWrapper)         *)
(***************************************************************************)
\* C3: with max_retries = N the function is invoked at most N + 1 times and at
\* most N backoff sleeps occur; when every attempt fails it is invoked exactly
\* N + 1 times, exactly N sleeps occur and the last error is raised; a successful
\* attempt is the last one.
C3_RetryBounded ==
    LET N == frame.max_retries IN
    /\ frame.calls <= N + 1
    /\ frame.sleeps <= N
    /\ frame.calls - frame.failures <= 1
    /\ (frame.calls - frame.failures = 1 <=> frame.status = "returned")
    /\ (frame.status = "raised" =>
            /\ frame.failures = frame.calls
            /\ frame.calls = N + 1
            /\ frame.sleeps = N
            /\ frame.raised = frame.last_exception)
    /\ (frame.failures = N + 1 => frame.status = "raised")

C3_Witness ==
    /\ frame.site = "func" /\ frame.max_retries = 2
    /\ frame.status = "raised"
    /\ frame.calls = 3 /\ frame.sleeps = 2

\* C4: every remote call made through SafeAPIWrapper passes a circuit-breaker
\* guard: once a call-site has failed failure_threshold times in a row and the
\* breaker timeout has not elapsed since the last failure, that call-site's
\* broker method is not invoked.
C4_BreakerGuardsWrapper ==
    [][ ( /\ streak.site \in WrapperSites
          /\ frame'.site = streak.site
          /\ streak.count >= CB_FAILURE_THRESHOLD
          /\ now - streak.last_fail[1] <= CB_TIMEOUT )
        => frame'.broker_calls <= frame.broker_calls ]_vars

\* C5: place_order with params lacking a required field fails with a validation
\* error and the broker's placeOrder is invoked zero times.
C5_MissingFieldNeverReachesBroker ==
    ( /\ frame.site = "place_order"
      /\ ~({"tradingsymbol", "symboltoken", "transactiontype", "exchange",
            "ordertype", "producttype", "quantity"} \subseteq frame.params) )
    => /\ frame.broker_calls = 0
       /\ frame.status /= "returned"
       /\ (frame.status = "raised" => frame.raised = "ValidationException")

C5_Witness ==
    /\ frame.site = "place_order"
    /\ "quantity" \notin frame.params
    /\ frame.status = "raised" /\ frame.raised = "ValidationException"
    /\ frame.broker_calls = 0

\* C6: a validation error raised by place_order aborts the call at once: when
\* the ValidationException reaches the caller the body has run exactly once and
\* no backoff sleep has occurred.
C6_ValidationNotRetried ==
    ( /\ frame.site = "place_order"
      /\ frame.status = "raised"
      /\ frame.raised = "ValidationException" )
    => (frame.calls = 1 /\ frame.sleeps = 0)

(***************************************************************************)
(* Properties of RiskManager (SpecRisk)                                    *)
(***************************************************************************)
TodayTotal == IF daily_pnl = NoneT THEN 0 ELSE daily_pnl[1].total_profit_loss
OpenCount == Cardinality({i \in DOMAIN trades : trades[i].shyam_status = "buy_complete"})
HasOpen(tradingsymbol) ==
    \E i \in DOMAIN trades : /\ trades[i].shyam_status = "buy_complete"
                             /\ trades[i].tradingsymbol = tradingsymbol
OutOfBand(position_value) ==
    2 * position_value < POSITION_SIZE \/ 2 * position_value > 3 * POSITION_SIZE
CheckNames(d) == [k \in DOMAIN d.checks |-> d.checks[k].name]

\* C7: can_enter_trade evaluates halt flag, daily loss, position count, duplicate
\* position and position-size band in that order and stops at the first that
\* fails: the reason is that check's, no later check is evaluated and the ledger
\* is not queried for it; allowed is true only when all five pass.
C7_ChecksInOrder ==
    [][ last_op'.name = "can_enter_trade" =>
        LET tradingsymbol == last_op'.args[1]
            position_value == last_op'.args[2] * last_op'.args[3]
            f1 == ~trading_enabled
            f2 == TodayTotal <= MAX_DAILY_LOSS
            f3 == OpenCount >= MAX_POSITION_COUNT
            f4 == HasOpen(tradingsymbol)
            f5 == OutOfBand(position_value)
        IN  /\ decision'.allowed = ~(f1 \/ f2 \/ f3 \/ f4 \/ f5)
            /\ decision'.reason[1] =
                  IF f1 THEN "Trading halted"
                  ELSE IF f2 THEN "Daily loss limit exceeded"
                  ELSE IF f3 THEN "Maximum positions reached"
                  ELSE IF f4 THEN "Position already exists for"
                  ELSE IF f5 THEN "Position size out of range"
                  ELSE "All risk checks passed"
            /\ CheckNames(decision') =
                  IF f1 THEN <<>>
                  ELSE IF f2 THEN <<"daily_loss">>
                  ELSE IF f3 THEN <<"daily_loss", "max_positions">>
                  ELSE IF f4 THEN <<"daily_loss", "max_positions", "existing_position">>
                  ELSE <<"daily_loss", "max_positions", "existing_position",
                         "position_value">>
            /\ queries' =
                  IF f1 THEN <<>>
                  ELSE IF f2 THEN <<"get_today_pnl">>
                  ELSE IF f3 THEN <<"get_today_pnl", "get_open_trades">>
                  ELSE <<"get_today_pnl", "get_open_trades",
                         "get_open_trades(tradingsymbol)">>
      ]_vars

C7_Witness ==
    /\ last_op.name = "can_enter_trade"
    /\ decision.reason[1] = "Maximum positions reached"
    /\ HasOpen(last_op.args[1])
    /\ OutOfBand(last_op.args[2] * last_op.args[3])
    /\ queries = <<"get_today_pnl", "get_open_trades">>
    /\ ~decision.allowed

\* C8: when trading is not halted and today's P&L is <= MAX_DAILY_LOSS (equal
\* included), can_enter_trade rejects and in the same call sets the halt flag
\* with the daily-loss reason; when the P&L is strictly above the limit the
\* daily-loss check passes and the halt flag is left as it was.
C8_DailyLossHalts ==
    [][ (last_op'.name = "can_enter_trade" /\ trading_enabled) =>
        IF TodayTotal <= MAX_DAILY_LOSS
        THEN /\ ~decision'.allowed
             /\ decision'.reason = <<"Daily loss limit exceeded", TodayTotal>>
             /\ ~trading_enabled'
             /\ halt_reason' = <<"Daily loss limit exceeded", TodayTotal>>
        ELSE /\ decision'.checks[1].name = "daily_loss"
             /\ decision'.checks[1].allowed
             /\ decision'.reason[1] /= "Daily loss limit exceeded"
             /\ trading_enabled'
             /\ halt_reason' = halt_reason
      ]_vars

C8_Witness ==
    /\ last_op.name = "can_enter_trade"
    /\ TodayTotal = MAX_DAILY_LOSS
    /\ decision.reason = <<"Daily loss limit exceeded", MAX_DAILY_LOSS>>
    /\ ~decision.allowed
    /\ ~trading_enabled
    /\ halt_reason = decision.reason

\* C9: while the halt flag is set, every can_enter_trade is rejected with the
\* recorded halt reason whatever the ledger holds, and only resume_trading
\* sets trading_enabled again.
C9_HaltedUntilResume ==
    [][ ~trading_enabled =>
        /\ (last_op'.name = "can_enter_trade" =>
                /\ ~decision'.allowed
                /\ decision'.reason = <<"Trading halted", halt_reason>>
                /\ decision'.checks = <<>>
                /\ ~trading_enabled'
                /\ halt_reason' = halt_reason)
        /\ (trading_enabled' => last_op'.name = "resume_trading")
      ]_vars

C9_Witness ==
    /\ ~trading_enabled
    /\ last_op.name = "can_enter_trade"
    /\ decision.reason = <<"Trading halted", <<"manual">>>>
    /\ TodayTotal > MAX_DAILY_LOSS
    /\ OpenCount < MAX_POSITION_COUNT
    /\ ~HasOpen(last_op.args[1])
    /\ ~OutOfBand(last_op.args[2] * last_op.args[3])

\* C10: with the earlier checks passing, can_enter_trade rejects iff
\* entry_price * quantity is strictly below 0.5 * POSITION_SIZE or strictly
\* above 1.5 * POSITION_SIZE; a value equal to either boundary is accepted.
C10_SizeBandInclusive ==
    ( /\ last_op.name = "can_enter_trade"
      /\ trading_enabled
      /\ TodayTotal > MAX_DAILY_LOSS
      /\ OpenCount < MAX_POSITION_COUNT
      /\ ~HasOpen(last_op.args[1]) )
    => LET position_value == last_op.args[2] * last_op.args[3] IN
       /\ decision.allowed <=>
            ~(2 * position_value < POSITION_SIZE \/ 2 * position_value > 3 * POSITION_SIZE)
       /\ (2 * position_value = POSITION_SIZE => decision.allowed)
       /\ (2 * position_value = 3 * POSITION_SIZE => decision.allowed)
       /\ (~decision.allowed => decision.reason = <<"Position size out of range", position_value>>)

C10_Witness ==
    /\ last_op.name = "can_enter_trade"
    /\ 2 * (last_op.args[2] * last_op.args[3]) = POSITION_SIZE
    /\ decision.allowed
    /\ decision.reason = <<"All risk checks passed">>

\* C12: every decision returned by can_enter_trade carries the outcome of all
\* of its checks (daily loss, position count, duplicate position, position
\* size, after the halt flag), also when an earlier check fails or trading is
\* halted.
C12_AllChecksReturned ==
    last_op.name = "can_enter_trade" =>
        {decision.checks[k].name : k \in DOMAIN decision.checks}
            = {"daily_loss", "max_positions", "existing_position", "position_value"}

(***************************************************************************)
(* Properties of OrderManager (SpecOrder, SpecOrderFair)                   *)
(***************************************************************************)
\* C13: when a poll of confirm_order_placement reports 'complete' (in any
\* letter case) after any number of non-terminal polls, polling stops at that
\* poll, one fill lookup is made and the call returns confirmed = true with
\* status 'complete' and the fill quantity of that poll's order status (0 when
\* the broker sent none); fill price and fill time are those of the trade
\* book's record when the lookup finds it, and None when it does not.
C13_CompleteConfirms ==
    om.last_status = "complete" =>
        /\ om.pc \in {"lookup", "done"}
        /\ om.lookups = 1
        /\ om.late_polls = 0
        /\ (om.pc = "done" =>
              /\ om.confirmation.confirmed
              /\ om.confirmation.status = "complete"
              /\ om.confirmation.fill_quantity =
                    IF om.filledshares = NoneT THEN <<0>> ELSE om.filledshares
              /\ IF om.book = "match"
                 THEN /\ om.confirmation.fill_price = <<FillRecord[1]>>
                      /\ om.confirmation.fill_time = <<FillRecord[2]>>
                 ELSE /\ om.confirmation.fill_price = NoneT
                      /\ om.confirmation.fill_time = NoneT)

C13_Witness ==
    /\ om.op = "confirm_order_placement" /\ om.pc = "done"
    /\ om.polls = 2 /\ om.errors = 0
    /\ om.last_status = "complete"
    /\ now - om.start_time < om.max_wait
    /\ om.confirmation.confirmed
    /\ om.confirmation.fill_price = <<101>>
    /\ om.confirmation.fill_quantity = <<75>>

\* C13 as the specification states it: a 'complete' poll always returns
\* confirmed = true with fill price, fill time and fill quantity populated.
C13_FillAlwaysPopulated ==
    (om.last_status = "complete" /\ om.pc = "done") =>
        /\ om.confirmation.confirmed
        /\ om.confirmation.status = "complete"
        /\ om.confirmation.fill_price /= NoneT
        /\ om.confirmation.fill_time /= NoneT
        /\ om.confirmation.fill_quantity /= NoneT

\* C14: confirm_order_placement always terminates, and when no poll has
\* reported a terminal status it returns, as a value, confirmed = false with
\* status 'timeout' and no fill data, no earlier than max_wait after its start,
\* every poll having started inside max_wait.
C14_ConfirmTerminates ==
    /\ []( (om.order_id /= NoneT /\ om.quiet) =>
             /\ om.late_polls = 0
             /\ om.polls <= om.max_wait
             /\ om.lookups = 0
             /\ (om.pc = "done" =>
                   /\ om.confirmation = [confirmed |-> FALSE, status |-> "timeout",
                                         fill_price |-> NoneT, fill_quantity |-> NoneT,
                                         fill_time |-> NoneT]
                   /\ now - om.start_time >= om.max_wait
                   /\ (om.op /= "confirm_order_placement" => om.result.success)) )
    /\ ((om.pc \in {"confirming", "polling", "lookup"}) ~> (om.pc = "done"))

C14_Witness ==
    /\ om.op = "place_buy_order" /\ om.pc = "done"
    /\ om.quiet /\ om.errors = 0
    /\ om.polls = 5
    /\ om.confirmation.status = "timeout"
    /\ now - om.start_time = 5

\* C15: the first poll that reports 'rejected' or 'cancelled' ends
\* confirm_order_placement at once with confirmed = false and that status: no
\* poll is started after it and no fill lookup is made.
C15_TerminalFailureEnds ==
    om.last_status \in {"rejected", "cancelled"} =>
        /\ om.pc = "done"
        /\ om.confirmation = [confirmed |-> FALSE, status |-> om.last_status,
                              fill_price |-> NoneT, fill_quantity |-> NoneT,
                              fill_time |-> NoneT]
        /\ om.lookups = 0
        /\ om.after_terminal = 0

C15_Witness ==
    /\ om.last_status = "cancelled" /\ om.pc = "done"
    /\ om.polls = 3
    /\ ~om.confirmation.confirmed /\ om.confirmation.status = "cancelled"

\* C16: within one place_buy_order or place_sell_order, once placeOrder has
\* answered with an order identifier it is not invoked again, whether the
\* confirmation ends complete, rejected, cancelled or in a timeout.
C16_NoResubmission ==
    /\ om.place_after_id = 0
    /\ (om.id_seen => (frame.site /= "place_order" \/ frame.status = "returned"))
    /\ (om.pc \in {"confirming", "polling", "lookup"} /\ om.op /= "confirm_order_placement"
            => om.id_seen)

C16_Witness ==
    /\ om.op = "place_sell_order" /\ om.pc = "done"
    /\ om.id_seen /\ om.place_calls = 2
    /\ om.result.success
    /\ om.confirmation.status = "timeout"

\* C39: confirm_order_placement blocks its caller for at most max_wait plus one
\* poll interval, whatever the broker does: from the first poll on, the time
\* since the loop's start_time never exceeds max_wait + check_interval.
C39_ConfirmWithinWait ==
    (om.pc \in {"confirming", "polling", "lookup", "done"} /\ om.polls > 0) =>
        now - om.start_time <= om.max_wait + CHECK_INTERVAL

\* C28: place_buy_order and place_sell_order end in a result, never in an
\* exception: a validation failure, the exhaustion of the retries, a broker
\* error and a response without an order id each give success = false with no
\* order_id and a non-empty message, and without an order id no confirmation
\* poll is started.
C28_FailuresAreResults ==
    om.op \in {"place_buy_order", "place_sell_order"} =>
        /\ om.pc \in {"confirming", "polling", "lookup"} => om.order_id /= NoneT
        /\ om.order_id = NoneT =>
              /\ om.polls = 0 /\ om.lookups = 0
              /\ om.confirmation = NoConfirmation
        /\ om.pc = "done" =>
              /\ om.result.success <=> (om.order_id /= NoneT)
              /\ (frame.site = "place_order" /\ frame.status = "raised")
                    => ~om.result.success
              /\ ~om.result.success =>
                    /\ om.result.order_id = NoneT
                    /\ om.result.message \notin {"", "none"}

\* the broker has answered without an order id: the call has ended in a failure
\* result and nothing was polled
C28_Witness ==
    /\ om.op = "place_buy_order" /\ om.pc = "done"
    /\ om.place_calls = 1 /\ frame.status = "returned"
    /\ ~om.result.success
    /\ om.result.message = "Order ID not found in response"
    /\ om.polls = 0

(***************************************************************************)
(* Properties of the ledger (SpecLedger)                                   *)
(***************************************************************************)
Closed == {i \in DOMAIN trades : trades[i].shyam_status = "sell_complete"}

RECURSIVE SumProfitLoss(_)
SumProfitLoss(rows) ==
    IF rows = {} THEN 0
    ELSE LET i == CHOOSE j \in rows : TRUE
         IN  trades[i].profit_loss[1] + SumProfitLoss(rows \ {i})

\* C21: after any sequence of ledger operations today's total_trades is the
\* number of trades that are sell_complete and total_profit_loss is the sum of
\* their profit_loss: a trade that is only sell_ordered, or a repeated sell
\* update of one trade, adds nothing to the daily aggregate.
C21_AggregateCountsClosedOnce ==
    /\ get_today_pnl.total_trades = Cardinality(Closed)
    /\ get_today_pnl.total_profit_loss = SumProfitLoss(Closed)

\* C22: across any sequence of updates of today's aggregate, total_trades,
\* winning_trades, losing_trades and max_profit never decrease, max_loss never
\* increases, total_trades = winning_trades + losing_trades in every state, and
\* a trade with profit_loss exactly 0 is counted as a loss.
C22_AggregateMonotone ==
    /\ [](get_today_pnl.total_trades
             = get_today_pnl.winning_trades + get_today_pnl.losing_trades)
    /\ [][/\ get_today_pnl'.total_trades >= get_today_pnl.total_trades
          /\ get_today_pnl'.winning_trades >= get_today_pnl.winning_trades
          /\ get_today_pnl'.losing_trades >= get_today_pnl.losing_trades
          /\ get_today_pnl'.max_profit >= get_today_pnl.max_profit
          /\ get_today_pnl'.max_loss <= get_today_pnl.max_loss
          /\ (/\ get_today_pnl'.total_trades = get_today_pnl.total_trades + 1
              /\ get_today_pnl'.total_profit_loss = get_today_pnl.total_profit_loss)
             => /\ get_today_pnl'.losing_trades = get_today_pnl.losing_trades + 1
                /\ get_today_pnl'.winning_trades = get_today_pnl.winning_trades]_vars

\* the aggregate after a gain, a loss and a sale at the buy price
C22_Witness ==
    /\ get_today_pnl.total_trades = 3
    /\ get_today_pnl.winning_trades = 1 /\ get_today_pnl.losing_trades = 2
    /\ get_today_pnl.total_profit_loss = 0
    /\ get_today_pnl.max_profit = 5000 /\ get_today_pnl.max_loss = -5000

\* the threads inside the with block of update_sell_trade, and those whose
\* call has committed
InLock == {t \in Threads : dbt.th[t].pc \in {"locked", "row_read", "daily_read"}}
Committed == {t \in Threads : dbt.th[t].outcome = "committed"}
SoldBy(t) == CHOOSE i \in DOMAIN trades : trades[i].order_id = dbt.th[t].order_id

\* C29: when update_sell_trade runs in two threads for different trades, one
\* thread at a time is between taking the lock and its commit, no call fails
\* on the aggregate, and no aggregate update is lost: total_trades has grown by
\* the number of calls that have finished and total_profit_loss by the sum of
\* their P&L, so by 2 and by both P&Ls when both have finished.
C29_SellUpdatesSerialized ==
    /\ Cardinality(InLock) <= 1
    /\ \A t \in Threads : (t \in InLock) <=> (dbt.holder = t)
    /\ \A t \in Threads : dbt.th[t].outcome /= "IntegrityError"
    /\ get_today_pnl.total_trades = Cardinality(Committed)
    /\ get_today_pnl.total_profit_loss =
           SumProfitLoss({SoldBy(t) : t \in Committed})

\* both calls have finished, one with a gain and one with a loss
C29_Witness ==
    /\ Committed = Threads
    /\ get_today_pnl.total_trades = 2
    /\ get_today_pnl.winning_trades = 1 /\ get_today_pnl.losing_trades = 1
    /\ trades[SoldBy(1)].profit_loss /= trades[SoldBy(2)].profit_loss

(***************************************************************************)
(* Properties of verify_position (SpecVerify)                              *)
(***************************************************************************)
\* the places in the broker's answer that hold a non-zero position of the symbol
HeldAt == IF vp.answer.raised THEN {}
          ELSE {i \in DOMAIN vp.answer.data :
                   /\ vp.answer.data[i].tradingsymbol = vp.tradingsymbol
                   /\ vp.answer.data[i].netqty \notin {NoneT, <<0>>}}

\* C27: verify_position(symbol, expected) returns verified = true iff the first
\* position of the broker's list with a non-zero net quantity for the symbol
\* has a net quantity equal to expected; otherwise verified = false with
\* actual_quantity that position's quantity, or 0 when the list holds no
\* non-zero position of the symbol or the position query fails.
C27_VerifyFirstHeld ==
    vp.calls = 1 =>
        IF HeldAt = {}
        THEN ~vp.result.verified /\ vp.result.actual_quantity = 0
        ELSE LET first == CHOOSE i \in HeldAt : \A j \in HeldAt : i <= j IN
             /\ vp.result.verified <=>
                    (vp.answer.data[first].netqty = <<vp.expected_quantity>>)
             /\ vp.result.actual_quantity = vp.answer.data[first].netqty[1]

\* a verified position that is not the first record of the list
C27_Witness ==
    /\ vp.calls = 1 /\ vp.result.verified
    /\ vp.expected_quantity = 75
    /\ Len(vp.answer.data) = 2 /\ HeldAt = {2}
    /\ vp.answer.data[1].tradingsymbol = vp.tradingsymbol

\* C27 as the specification states it: verified = true iff the list contains a
\* non-zero position of the symbol whose net quantity equals expected.
C27_VerifyAnyHeld ==
    vp.calls = 1 =>
        /\ vp.result.verified <=>
              (\E i \in HeldAt : vp.answer.data[i].netqty = <<vp.expected_quantity>>)
        /\ (HeldAt = {} => vp.result.actual_quantity = 0)
        /\ vp.expected_quantity = 0 => ~vp.result.verified

(***************************************************************************)
(* Properties of TrailingStopLoss (SpecTrail)                              *)
(***************************************************************************)
\* C17: calculate_stop_loss of an enabled TrailingStopLoss, with
\* p = (current - entry) / entry * 100 and m = max(max_profit_seen, p): the stop
\* is active iff m >= trigger; when inactive should_exit is false and no stop
\* price or threshold is computed; when active the threshold is m - trail, the
\* stop price is entry * (1 + threshold / 100) and should_exit is true iff
\* p < threshold, strictly.  With entry 100, trigger 1.5 and trail 1.0: price 103
\* gives active, threshold 2.0 and no exit; price 101.5 with m = 3 gives exit.
C17_StopLossSemantics ==
    (tsl.evals >= 1 /\ tsl.enabled) =>
        LET r == tsl.result
            p == ((tsl.current_price - tsl.entry_price) * 10000) \div tsl.entry_price
            m == IF tsl.max_profit_seen >= p THEN tsl.max_profit_seen ELSE p
            threshold == m - tsl.trail_percent
            example == /\ tsl.entry_price = 200 /\ tsl.trigger_percent = 150
                       /\ tsl.trail_percent = 100
        IN  /\ r.max_profit = <<m>>
            /\ r.tsl_active <=> (m >= tsl.trigger_percent)
            /\ ~r.tsl_active =>
                   /\ ~r.should_exit
                   /\ r.stop_loss_price = NoneT
                   /\ r.trailing_threshold = NoneT
            /\ r.tsl_active =>
                   /\ r.trailing_threshold = <<threshold>>
                   /\ r.stop_loss_price = <<tsl.entry_price * (10000 + threshold)>>
                   /\ r.should_exit <=> (p < threshold)
            /\ (example /\ tsl.current_price = 206 /\ tsl.max_profit_seen <= 300) =>
                   /\ r.tsl_active /\ r.trailing_threshold = <<200>>
                   /\ ~r.should_exit
            /\ (example /\ tsl.current_price = 203 /\ tsl.max_profit_seen = 300) =>
                   r.tsl_active /\ r.should_exit

\* the example's second evaluation: after the price has been at 103, the price
\* 101.5 is evaluated with the max profit 3 % and the stop fires
C17_Witness ==
    /\ tsl.enabled /\ tsl.evals >= 2
    /\ tsl.entry_price = 200 /\ tsl.trigger_percent = 150 /\ tsl.trail_percent = 100
    /\ tsl.current_price = 203 /\ tsl.max_profit_seen = 300
    /\ tsl.result.should_exit

\* C19: when each evaluation is given the max profit the previous one returned,
\* a stop that is active stays active in the next evaluation, and its trailing
\* threshold and stop price are not lower than in the previous one, whatever
\* the prices are.
C19_StopNeverLoosens ==
    [][(/\ tsl.evals >= 1 /\ tsl'.evals >= 1
        /\ tsl'.enabled = tsl.enabled
        /\ tsl'.trigger_percent = tsl.trigger_percent
        /\ tsl'.trail_percent = tsl.trail_percent
        /\ tsl'.entry_price = tsl.entry_price
        /\ tsl'.max_profit_seen = tsl.max_profit_updated
        /\ tsl.result.tsl_active)
       => /\ tsl'.result.tsl_active
          /\ tsl'.result.trailing_threshold[1] >= tsl.result.trailing_threshold[1]
          /\ tsl'.result.stop_loss_price[1] >= tsl.result.stop_loss_price[1]]_vars

\* a second evaluation at a price below the trigger, with the stored peak
\* above it: the stop is still active and its threshold is the peak's
C19_Witness ==
    /\ tsl.enabled /\ tsl.evals >= 2
    /\ tsl.max_profit_seen = tsl.max_profit_updated
    /\ tsl.max_profit_seen >= tsl.trigger_percent
    /\ ProfitPct(tsl.current_price, tsl.entry_price) < 0
    /\ tsl.result.tsl_active
    /\ tsl.result.trailing_threshold = <<tsl.max_profit_seen - tsl.trail_percent>>

(***************************************************************************)
(* Properties of the scan loop over the ledger (SpecApp)                   *)
(***************************************************************************)
\* a recorded trade of tradingsymbol that has been bought and not yet sold
Unsold(tradingsymbol) ==
    {i \in DOMAIN trades : /\ trades[i].tradingsymbol = tradingsymbol
                           /\ trades[i].shyam_status \in {"ordered", "buy_complete"}}

\* C11: from the moment a buy order for a symbol has been submitted and recorded
\* in the ledger until that trade is sold, every can_enter_trade for the symbol
\* is rejected, whatever LIVE_FLAG is, so the ledger never holds two unsold
\* trades of one symbol.
C11_NoSecondEntry ==
    [][ /\ ( (last_op'.name = "can_enter_trade" /\ Unsold(last_op'.args[1]) /= {})
             => ~decision'.allowed )
        /\ \A tradingsymbol \in Symbols : Cardinality(Unsold(tradingsymbol)') <= 1
      ]_vars

\* C18: in the scan loop the stored max_profit_seen of a trade never decreases,
\* and after each exit evaluation of an open trade it is the greater of the
\* value stored before and the current profit percentage, whether or not the
\* evaluation gave an exit signal.
C18_MaxProfitStored ==
    [][/\ \A i \in DOMAIN trades :
            trades'[i].max_profit_seen >= trades[i].max_profit_seen
       /\ (last_op'.name = "process_exit" /\ last_op'.args[2] = "checked") =>
            \A i \in DOMAIN trades :
                trades[i].order_id = last_op'.args[1] =>
                    LET p == ((last_op'.args[3] - trades[i].order_price) * 10000)
                                 \div trades[i].order_price
                    IN  trades'[i].max_profit_seen =
                            IF trades[i].max_profit_seen >= p
                            THEN trades[i].max_profit_seen ELSE p]_vars

\* an evaluation at a loss that gives an exit signal, of a trade whose stored
\* peak of 0.5 % comes from an earlier evaluation that gave none
C18_Witness ==
    /\ last_op.name = "process_exit" /\ last_op.args[2] = "checked"
    /\ last_op.args[3] = 198 /\ last_op.args[4]
    /\ \E i \in DOMAIN trades :
         /\ trades[i].order_id = last_op.args[1]
         /\ trades[i].order_price = 200
         /\ trades[i].max_profit_seen = 50

\* C23: every buy order submitted from the scan loop directly follows a
\* completed can_enter_trade for the same symbol, made with the price and the
\* quantity of the order, that returned allowed, no other risk decision or order
\* coming in between; after a rejected decision the loop is done with the symbol
\* and submits nothing.
C23_OrderAfterAllowedCheck ==
    /\ []( (last_op.name = "can_enter_trade" /\ ~decision.allowed)
               => scan.pc = "idle" )
    /\ [][ (scan'.pc = "ordered" /\ scan.pc /= "ordered") =>
              /\ last_op.name = "can_enter_trade"
              /\ last_op.args = <<scan'.tradingsymbol, scan'.entry_price,
                                  scan'.quantity>>
              /\ scan'.entry_price /= entry_price_estimate
              /\ decision.allowed
              /\ UNCHANGED <<last_op, decision, trades>> ]_vars

\* a second symbol's order has been submitted, with one trade in the ledger
C23_Witness ==
    /\ scan.pc = "ordered" /\ scan.order_result.success
    /\ last_op = [name |-> "can_enter_trade",
                  args |-> <<scan.tradingsymbol, 200, 250>>]
    /\ decision.allowed
    /\ Len(trades) = 1

\* C24: for any single trade no sell order is submitted before that trade's buy
\* submission and confirmation have finished: a trade is recorded only once
\* place_buy_order, confirm_order_placement included, has returned success, and
\* a sell order is only ever submitted for a trade that is recorded.
C24_SellAfterBuyFinished ==
    [][ /\ Len(trades') > Len(trades) =>
              /\ scan.pc = "ordered" /\ scan'.pc = "idle"
              /\ scan.order_result.success
              /\ scan.order_result.confirmation /= "none"
        /\ (tsl.pending /\ ~tsl'.pending) =>
              \E i \in DOMAIN trades :
                  /\ trades[i].order_id = tsl.order_id
                  /\ trades[i].shyam_status = "buy_complete"
                  /\ scan.pc = "idle" ]_vars

\* the sell order of a recorded trade has been submitted and written
C24_Witness ==
    /\ last_op = [name |-> "update_sell_trade", args |-> <<>>]
    /\ ~tsl.pending
    /\ \E i \in DOMAIN trades :
         trades[i].shyam_status \in {"sell_ordered", "sell_complete"}

\* C30: when the confirmation of a buy order has ended in a timeout, the scan
\* loop calls verify_position for the symbol before it treats the trade as open
\* or as failed: execute_entry does not finish, with or without a ledger row,
\* unless verify_position has been called.
C30_TimeoutReconciled ==
    [][ ( /\ scan.pc = "ordered" /\ scan'.pc = "idle"
          /\ scan.order_result.confirmation = "timeout" )
            => /\ vp.calls > 0
               /\ vp.tradingsymbol = scan.tradingsymbol ]_vars

\* C32: at most one sell order that succeeds is submitted for a trade: once
\* place_sell_order has returned success for a trade, the ledger update takes
\* the trade out of the open set, so that no later scan sells it again.
C32_SoldLeavesOpenSet ==
    [][ ( /\ tsl.pending /\ ~tsl'.pending
          /\ last_op'.name = "update_sell_trade" ) =>
            \A i \in DOMAIN trades' :
                trades'[i].order_id = tsl.order_id => ~IsOpenRow(trades'[i]) ]_vars

\* C37: a symbol for which trading is not halted, today's P&L is above the
\* limit, fewer than MAX_POSITION_COUNT trades are open, none is open for the
\* symbol, and whose quantity at the price of a signal lies inside the
\* position-size band, is not turned away for its position size before its
\* entry signal is looked at, so that the signal reaches execute_entry.
C37_SignalReachesEntry ==
    [][ ( /\ scan.pc = "idle"
          /\ last_op'.name = "can_enter_trade"
          /\ last_op'.args[2] = entry_price_estimate
          /\ \E entry_price \in AppEntryPrices :
                ~SizeOutOfRange(entry_price * last_op'.args[3]) )
            => decision'.reason[1] /= "Position size out of range" ]_vars

\* C38: at every point of the scan loop, in either mode of LIVE_FLAG, at most
\* MAX_POSITION_COUNT trades have been bought and recorded and not yet sold.
C38_UnsoldWithinMaxPositions ==
    Cardinality({i \in DOMAIN trades :
                    trades[i].shyam_status \in {"ordered", "buy_complete"}})
        <= MAX_POSITION_COUNT

\* C33: a trade whose buy confirmation came back rejected, cancelled or timed
\* out is never recorded as an open position, whatever LIVE_FLAG is:
\* execute_entry ends without adding anything to what get_open_trades returns.
C33_UnconfirmedNeverOpen ==
    [][ ( /\ scan.pc = "ordered" /\ scan'.pc = "idle"
          /\ scan.order_result.confirmation \in {"rejected", "timeout"} )
            => get_open_trades(NoneT)' = get_open_trades(NoneT) ]_vars

\* C34: when the confirmation of a buy order has come back complete, the
\* trade's record eventually is 'buy_complete' with the confirmed fill price
\* and quantity stored, whatever LIVE_FLAG is.
C34_CompleteReachesBuyConfirmed ==
    \A tradingsymbol \in Symbols :
        ( /\ scan.pc = "ordered" /\ scan.tradingsymbol = tradingsymbol
          /\ scan.order_result.confirmation = "complete"
          /\ Len(trades) < MaxAppTrades )
            ~> (\E i \in DOMAIN trades :
                    /\ trades[i].tradingsymbol = tradingsymbol
                    /\ trades[i].shyam_status = "buy_complete"
                    /\ trades[i].buy_price /= NoneT
                    /\ trades[i].buy_quantity /= NoneT)

\* C31: a halt blocks new entries only: every iteration of the main loop that
\* starts while a position is open goes on to evaluate the open positions for
\* exit, whether or not trading is halted.
C31_HaltedStillEvaluatesExits ==
    [][ ( /\ scan.loop = "top"
          /\ last_op'.name = "run" /\ last_op' /= last_op
          /\ get_open_trades(NoneT) /= <<>> )
            => scan'.loop /= "top" ]_vars

\* C20: in every ledger state a trade's sell-side fields are unset unless its
\* shyam_status is 'sell_ordered' or 'sell_complete', and its profit_loss is set
\* if and only if its shyam_status is 'sell_complete'.
C20_SellFieldsByState ==
    \A i \in DOMAIN trades :
        /\ (trades[i].sell_quantity /= NoneT \/ trades[i].sell_price /= NoneT) =>
               trades[i].shyam_status \in {"sell_ordered", "sell_complete"}
        /\ (trades[i].profit_loss /= NoneT) <=>
               (trades[i].shyam_status = "sell_complete")

====
